---- MODULE Spec2Model ----
(***************************************************************************)
(* Michigan Medicaid behavioural-health pipeline: the paginated fetcher    *)
(* and the two-slot snapshot cache of src/src/apiscraper.py, the cleaner   *)
(* of src/src/datacleaner.py and the entry point of src/analyze.py.        *)
(*                                                                         *)
(* A table (pandas DataFrame) is a record                                  *)
(*   [kind, columns, rows, dtype, numeric]                                 *)
(* whose rows are a sequence of record ids kept as runs [lo, len] of       *)
(* consecutive ids: <<[lo |-> 0, len |-> 1000]>> is the records 0..999 in  *)
(* that order.  The content of a record is a function of its id (RawCell). *)
(***************************************************************************)
EXTENDS Integers, Sequences, FiniteSets, TLC

VARIABLES
  remote_n,      \* number of records the remote endpoint serves
  current_file,  \* data/medicaid_data_current.csv
  backup_file,   \* data/medicaid_data_backup.csv
  pc,            \* control location of the running call ("idle": none)
  stack,         \* return locations of the callers
  op,            \* the call made from outside: [name, force_refresh, full]
  loc,           \* the locals of the running call: [all_data, offset, df_arg, df, ret]
  requests,      \* the HTTP requests issued since the call started
  result,        \* outcome of the last call made from outside
  obs,           \* what was observed during the call (history)
  stored,        \* the tables stored by successful save_data calls, newest first
  cin,           \* cleaner: the table handed to the cleaner
  cout           \* cleaner: outcome of the cleaner call

vars == <<remote_n, current_file, backup_file, pc, stack, op, loc, requests,
          result, obs, stored, cin, cout>>

-----------------------------------------------------------------------------
(* Bounds *)

\* the largest endpoint serves MaxPages full pages
MaxPages == 10

-----------------------------------------------------------------------------
(* Program constants *)

limit == 1000
expected_min == 23000

Min(a, b) == IF a < b THEN a ELSE b
Max(a, b) == IF a > b THEN a ELSE b

-----------------------------------------------------------------------------
(* Tables *)

\* the keys of the row objects the endpoint returns
api_columns ==
  {"State", "Service Category", "County", "MCO Name", "Plan Category",
   "Calendar Year", "Number of Active Patients", "Number of Eligible MCO Patients",
   "Number of Providers", "Percent Of Eligible Patients Receving Services",
   "Number of Services per Active Patient", "Number of Active Patients per Provider"}

None == [kind |-> "None", columns |-> {}, rows |-> <<>>, dtype |-> "none", numeric |-> {}]

RECURSIVE Count(_)
\* len(): the number of records of a sequence of runs
Count(rows) == IF rows = <<>> THEN 0 ELSE Head(rows).len + Count(Tail(rows))

\* one run appended to a sequence of runs (the records lo .. lo+len-1, in order)
AppendRun(rows, r) ==
  IF r.len = 0 THEN rows
  ELSE IF rows # <<>> /\ rows[Len(rows)].lo + rows[Len(rows)].len = r.lo
  THEN [rows EXCEPT ![Len(rows)].len = @ + r.len]
  ELSE Append(rows, r)

RECURSIVE Extend(_, _)
\* list.extend: the records of batch after those of data, in order
Extend(data, batch) ==
  IF batch = <<>> THEN data ELSE Extend(AppendRun(data, Head(batch)), Tail(batch))

\* pd.DataFrame(list of row objects): no record, no column
DataFrame(data) ==
  [kind |-> "DataFrame",
   columns |-> IF data = <<>> THEN {} ELSE api_columns,
   rows |-> data, dtype |-> "object", numeric |-> {}]

\* the table of the first n records of the remote dataset
TableOf(n) == DataFrame(AppendRun(<<>>, [lo |-> 0, len |-> n]))

-----------------------------------------------------------------------------
(* Snapshot files *)

NoFile == [exists |-> FALSE, header |-> {}, rows |-> <<>>]

\* os.path.exists
Exists(f) == f.exists

\* df.to_csv(path, index=False): a header line naming the columns, one line per record
to_csv(df) == [exists |-> TRUE, header |-> df.columns, rows |-> df.rows]

EmptyDataError ==
  [kind |-> "EmptyDataError", columns |-> {}, rows |-> <<>>, dtype |-> "none", numeric |-> {}]

\* pd.read_csv(path): the columns of the header line with inferred dtypes; a file
\* whose header line names no column cannot be parsed
read_csv(f) ==
  IF f.header = {} THEN EmptyDataError
  ELSE [kind |-> "DataFrame", columns |-> f.header, rows |-> f.rows,
        dtype |-> "inferred", numeric |-> {}]

-----------------------------------------------------------------------------
(* The remote endpoint *)

\* the sizes of the remote dataset
NValues == {0, limit - 1, limit, limit + 1, MaxPages * limit}

\* the JSON array the endpoint answers to GET ?offset=o&limit=l when it serves n records
Page(n, o, l) ==
  LET k == Min(l, Max(0, n - o))
  IN IF k = 0 THEN <<>> ELSE <<[lo |-> o, len |-> k]>>

-----------------------------------------------------------------------------
(* Calls, returns and exceptions *)

NoResult == [kind |-> "none", value |-> None, exc |-> ""]

\* the locals before a call: all_data and offset of fetch_from_api, the df
\* parameter of save_data, the local df of fetch_or_load and main, and the value
\* the last callee returned
NoLocals == [all_data |-> <<>>, offset |-> 0, df_arg |-> None, df |-> None, ret |-> None]

ObsInit ==
  [pre_current |-> current_file, pre_backup |-> backup_file, pre_n |-> remote_n,
   fetch |-> "not_called", fail_at |-> 0, save_calls |-> 0, load_calls |-> 0,
   cleaner_calls |-> 0, cleaner_arg |-> None, aggregated |-> FALSE,
   launched |-> FALSE, main_ret |-> -1, exit_status |-> -1,
   fetch_warning |-> FALSE, row_count |-> "", browser |-> "not_started",
   analysed |-> "not_called"]

\* a call from outside starts at location l
Enter(name, force, full, l) ==
  /\ pc = "idle"
  /\ op' = [name |-> name, force_refresh |-> force, full |-> full]
  /\ pc' = l
  /\ stack' = <<>>
  /\ requests' = <<>>
  /\ result' = NoResult

\* return v to the caller, or to the outside when there is no caller; l are the
\* locals at the return
Return(v, l) ==
  IF stack = <<>>
  THEN /\ pc' = "idle"
       /\ result' = [kind |-> "returned", value |-> v, exc |-> ""]
       /\ loc' = NoLocals
       /\ UNCHANGED stack
  ELSE /\ pc' = Head(stack)
       /\ stack' = Tail(stack)
       /\ loc' = [l EXCEPT !.ret = v]
       /\ UNCHANGED result

\* an exception no frame handles ends the call
Raise(exc) ==
  /\ pc' = "idle"
  /\ stack' = <<>>
  /\ result' = [kind |-> "raised", value |-> None, exc |-> exc]
  /\ loc' = NoLocals

\* an uncaught exception ends the interpreter with status 1
Crashed(o) == IF op.name = "main" THEN [o EXCEPT !.exit_status = 1] ELSE o

-----------------------------------------------------------------------------
(* MedicaidAPIScraper.fetch_from_api *)

\* the query parameters of one request
Params(o) == [offset |-> o, limit |-> limit]

ShortPage_inclusive(batch) == Count(batch) <= limit

\* a loop that only an empty page ends
ShortPage_never(batch) == FALSE

\* the page ends the stream
ShortPage(batch) == Count(batch) < limit

\* an offset that asks again for the last record of the page
NextOffset_overlapping(o) == o + limit - 1

\* offset += limit
NextOffset(o) == o + limit

OnStatusError_partial(data) == DataFrame(data)

\* the value returned on a status other than 200
OnStatusError(data) == None

\* the value returned when the request (or the decoding of its body) raises
OnException(data) == None

\* if len(all_data) < expected_min: the warning is printed
FetchWarning(data) == Count(data) < expected_min

\* a fetch that returns nothing when it warns
FetchResult_checked(data) == IF FetchWarning(data) THEN None ELSE DataFrame(data)

\* the value returned once the loop is left
FetchResult(data) == DataFrame(data)

\* all_data = [], offset = 0
FetchLocals(l) == [l EXCEPT !.all_data = <<>>, !.offset = 0]

CallFetchFromApi ==
  /\ Enter("fetch_from_api", FALSE, FALSE, "fetch_loop")
  /\ loc' = FetchLocals(NoLocals)
  /\ obs' = ObsInit
  /\ UNCHANGED <<remote_n, current_file, backup_file, stored, cin, cout>>

\* one iteration of the loop: one GET and what the code does with the response
FetchRequest ==
  /\ pc = "fetch_loop"
  /\ requests' = Append(requests, Params(loc.offset))
  /\ \E outcome \in {"200", "status", "exception"} :
       IF outcome = "200"
       THEN LET sent == requests'[Len(requests')]
                batch == Page(remote_n, sent.offset, sent.limit)
                data == Extend(loc.all_data, batch)
            IN IF batch = <<>>
               THEN /\ Return(FetchResult(loc.all_data), loc)
                    /\ obs' = [obs EXCEPT !.fetch = "ok",
                                          !.fetch_warning = FetchWarning(loc.all_data)]
               ELSE IF ShortPage(batch)
               THEN /\ Return(FetchResult(data), [loc EXCEPT !.all_data = data])
                    /\ obs' = [obs EXCEPT !.fetch = "ok",
                                          !.fetch_warning = FetchWarning(data)]
               ELSE /\ loc' = [loc EXCEPT !.all_data = data,
                                          !.offset = NextOffset(loc.offset)]
                    /\ UNCHANGED <<pc, stack, result, obs>>
       ELSE /\ Return(IF outcome = "status" THEN OnStatusError(loc.all_data)
                                            ELSE OnException(loc.all_data), loc)
            /\ obs' = [obs EXCEPT !.fetch = "failed", !.fail_at = Len(requests')]
  /\ UNCHANGED <<remote_n, current_file, backup_file, op, stored, cin, cout>>

-----------------------------------------------------------------------------
(* MedicaidAPIScraper.save_data *)

\* the tables save_data is called with from outside
SaveArgs == {TableOf(n) : n \in {0, limit - 1, limit}}

\* the history of the tables stored by successive successful save_data calls,
\* newest first: the last one, the one before it and one older (a refused write
\* starts the history again)
Remember(df) == SubSeq(<<df>> \o stored, 1, Min(Len(stored) + 1, 3))

CallSaveData(df) ==
  /\ Enter("save_data", FALSE, FALSE, "save_data")
  /\ loc' = [NoLocals EXCEPT !.df_arg = df]
  /\ obs' = [ObsInit EXCEPT !.save_calls = 1]
  /\ UNCHANGED <<remote_n, current_file, backup_file, stored, cin, cout>>

\* os.remove(self.backup_file)
SaveRemoveBackup ==
  /\ pc = "save_data"
  /\ Exists(current_file) /\ Exists(backup_file)
  /\ backup_file' = NoFile
  /\ pc' = "save_rename"
  /\ UNCHANGED <<remote_n, current_file, stack, op, loc, requests, result, obs,
                 stored, cin, cout>>

\* os.rename(self.current_file, self.backup_file)
SaveRename ==
  /\ \/ pc = "save_rename"
     \/ pc = "save_data" /\ Exists(current_file) /\ ~Exists(backup_file)
  /\ backup_file' = current_file
  /\ current_file' = NoFile
  /\ pc' = "save_write"
  /\ UNCHANGED <<remote_n, stack, op, loc, requests, result, obs, stored, cin, cout>>

\* df.to_csv(self.current_file, index=False), which the file system may refuse
SaveWrite ==
  /\ \/ pc = "save_write"
     \/ pc = "save_data" /\ ~Exists(current_file)
  /\ \E written \in BOOLEAN :
       IF written
       THEN /\ current_file' = to_csv(loc.df_arg)
            /\ stored' = Remember(loc.df_arg)
            /\ Return(None, loc)
            /\ UNCHANGED obs
       ELSE /\ Raise("OSError")
            /\ obs' = Crashed(obs)
            /\ stored' = <<>>
            /\ UNCHANGED current_file
  /\ UNCHANGED <<remote_n, backup_file, op, requests, cin, cout>>

-----------------------------------------------------------------------------
(* MedicaidAPIScraper.load_current_data *)

CallLoadCurrentData ==
  /\ Enter("load_current_data", FALSE, FALSE, "load_current_data")
  /\ loc' = NoLocals
  /\ obs' = ObsInit
  /\ UNCHANGED <<remote_n, current_file, backup_file, stored, cin, cout>>

\* the file load_current_data reads
LoadSource == current_file

LoadCurrentData ==
  /\ pc = "load_current_data"
  /\ obs' = IF Exists(current_file) /\ read_csv(LoadSource).kind # "DataFrame"
            THEN Crashed([obs EXCEPT !.load_calls = @ + 1])
            ELSE [obs EXCEPT !.load_calls = @ + 1]
  /\ IF Exists(current_file)
     THEN LET df == read_csv(LoadSource)
          IN IF df.kind = "DataFrame" THEN Return(df, loc) ELSE Raise(df.kind)
     ELSE Return(None, loc)
  /\ UNCHANGED <<remote_n, current_file, backup_file, op, requests, stored, cin, cout>>

-----------------------------------------------------------------------------
(* MedicaidAPIScraper.fetch_or_load *)

\* the condition under which fetch_or_load fetches
NeedFetch(force_refresh, f) == force_refresh \/ ~Exists(f)

ShouldSave_always(df) == TRUE

\* whether the fetched value is stored
ShouldSave(df) == df # None

CallFetchOrLoad(force_refresh) ==
  /\ Enter("fetch_or_load", force_refresh, FALSE, "fetch_or_load")
  /\ loc' = NoLocals
  /\ obs' = ObsInit
  /\ UNCHANGED <<remote_n, current_file, backup_file, stored, cin, cout>>

FetchOrLoad ==
  /\ pc = "fetch_or_load"
  /\ IF NeedFetch(op.force_refresh, current_file)
     THEN /\ pc' = "fetch_loop"
          /\ stack' = <<"fol_fetched">> \o stack
          /\ loc' = FetchLocals(loc)
     ELSE /\ pc' = "load_current_data"
          /\ UNCHANGED <<stack, loc>>
  /\ UNCHANGED <<remote_n, current_file, backup_file, op, requests, result, obs,
                 stored, cin, cout>>

\* df = self.fetch_from_api(); if df is not None: self.save_data(df)
FolFetched ==
  /\ pc = "fol_fetched"
  /\ IF ShouldSave(loc.ret)
     THEN /\ pc' = "save_data"
          /\ stack' = <<"fol_return">> \o stack
          /\ loc' = [loc EXCEPT !.df = loc.ret, !.df_arg = loc.ret]
          /\ obs' = [obs EXCEPT !.save_calls = @ + 1]
          /\ UNCHANGED result
     ELSE /\ Return(loc.ret, [loc EXCEPT !.df = loc.ret])
          /\ UNCHANGED obs
  /\ UNCHANGED <<remote_n, current_file, backup_file, op, requests, stored, cin, cout>>

\* return df
FolReturn ==
  /\ pc = "fol_return"
  /\ Return(loc.df, loc)
  /\ UNCHANGED <<remote_n, current_file, backup_file, op, requests, obs, stored,
                 cin, cout>>

-----------------------------------------------------------------------------
(* The environment *)

\* the publisher changes the dataset between two calls
RemotePublish(n) ==
  /\ pc = "idle"
  /\ n # remote_n
  /\ remote_n' = n
  /\ UNCHANGED <<current_file, backup_file, pc, stack, op, loc, requests, result,
                 obs, stored, cin, cout>>

-----------------------------------------------------------------------------
(* The specification of the scraper *)

Files == {NoFile} \cup {to_csv(TableOf(n)) : n \in NValues}

Init ==
  /\ remote_n \in NValues
  /\ current_file \in Files
  /\ backup_file \in Files
  /\ pc = "idle"
  /\ stack = <<>>
  /\ op = [name |-> "none", force_refresh |-> FALSE, full |-> FALSE]
  /\ loc = NoLocals
  /\ requests = <<>>
  /\ result = NoResult
  /\ obs = ObsInit
  /\ stored = <<>>
  /\ cin = None
  /\ cout = [call |-> "none", out |-> [ret |-> None, exc |-> "", reports |-> <<>>, stages |-> <<>>]]

Next ==
  \/ \E n \in NValues : RemotePublish(n)
  \/ CallFetchFromApi
  \/ FetchRequest
  \/ \E df \in SaveArgs : CallSaveData(df)
  \/ SaveRemoveBackup
  \/ SaveRename
  \/ SaveWrite
  \/ CallLoadCurrentData
  \/ LoadCurrentData
  \/ \E force_refresh \in BOOLEAN : CallFetchOrLoad(force_refresh)
  \/ FetchOrLoad
  \/ FolFetched
  \/ FolReturn

Spec == Init /\ [][Next]_vars

-----------------------------------------------------------------------------
(* Properties of the scraper *)

\* the call made from outside has ended
Done(name) == pc = "idle" /\ op.name = name /\ result.kind # "none"

CeilDiv(a, b) == (a + b - 1) \div b

FetchSucceeded == Done("fetch_from_api") /\ obs.fetch = "ok"

\* C1 as stated: a fetch of an endpoint serving N records with status 200 issues
\* exactly ceil(N / limit) requests and returns exactly N records
C1_CeilRequests ==
  FetchSucceeded =>
    /\ Len(requests) = CeilDiv(obs.pre_n, limit)
    /\ result.value.kind = "DataFrame"
    /\ Count(result.value.rows) = obs.pre_n

\* C1 amended: a fetch of an endpoint serving N records with status 200 issues
\* exactly floor(N / limit) + 1 requests (one more than ceil(N / limit) when N is a
\* multiple of limit, 0 included: the stream ends on a short or empty page) and
\* returns the table of exactly the N records, for every N of NValues
C1_FloorPlusOneRequests ==
  FetchSucceeded =>
    /\ Len(requests) = (obs.pre_n \div limit) + 1
    /\ result.kind = "returned"
    /\ result.value = TableOf(obs.pre_n)
    /\ Count(result.value.rows) = obs.pre_n

C1_Witness ==
  /\ FetchSucceeded
  /\ obs.pre_n = MaxPages * limit
  /\ Len(requests) = MaxPages + 1
  /\ Count(result.value.rows) = MaxPages * limit

\* C2: once a request of a fetch has failed (status other than 200, or an
\* exception), the fetch has returned None: the failed request is the last one
\* issued and no record of the earlier pages is returned, whichever page failed
C2_FailureReturnsNone ==
  obs.fetch = "failed" =>
    /\ pc # "fetch_loop"
    /\ Len(requests) = obs.fail_at
    /\ (pc = "fol_fetched" => loc.ret = None)
    /\ (Done("fetch_from_api") => result.kind = "returned" /\ result.value = None)

C2_Witness ==
  /\ Done("fetch_from_api")
  /\ obs.fetch = "failed"
  /\ obs.pre_n = MaxPages * limit
  /\ obs.fail_at = 3
  /\ result.value = None

\* the rotation alone: after two or more successful save_data calls the current
\* file is the last stored table and the backup file the one stored before it
RotationKeepsLastTwo ==
  (pc = "idle" /\ Len(stored) >= 2) =>
    /\ current_file = to_csv(stored[1])
    /\ backup_file = to_csv(stored[2])
    /\ \A i \in 3..Len(stored) :
         stored[i] \notin {stored[1], stored[2]} =>
           to_csv(stored[i]) \notin {current_file, backup_file}

\* C3 as stated: after two or more successful save_data calls the current slot
\* holds the last stored table and load_current_data returns it, the backup slot
\* holds the table stored before it, and no older table is in a slot
C3_RotationAndLoad ==
  /\ RotationKeepsLastTwo
  /\ (Done("load_current_data") /\ Len(stored) >= 2) =>
       /\ result.kind = "returned"
       /\ result.value.kind = "DataFrame"
       /\ result.value.rows = stored[1].rows
       /\ result.value.columns = stored[1].columns

\* C4 as stated: fetch_or_load fetches iff force_refresh or no current file; with
\* force_refresh false and a current file it returns the contents of the current
\* file, issues no request and leaves both files as they were
C4_FetchIffForcedOrMissing ==
  Done("fetch_or_load") =>
    /\ (obs.fetch # "not_called") <=> (op.force_refresh \/ ~Exists(obs.pre_current))
    /\ (~op.force_refresh /\ Exists(obs.pre_current)) =>
         /\ result.kind = "returned"
         /\ result.value.kind = "DataFrame"
         /\ result.value.rows = obs.pre_current.rows
         /\ result.value.columns = obs.pre_current.header
         /\ Len(requests) = 0
         /\ current_file = obs.pre_current
         /\ backup_file = obs.pre_backup

\* the branch of fetch_or_load alone
FetchOrLoadBranches ==
  Done("fetch_or_load") =>
    /\ (obs.fetch # "not_called") <=> (op.force_refresh \/ ~Exists(obs.pre_current))
    /\ (~op.force_refresh /\ Exists(obs.pre_current)) =>
         /\ Len(requests) = 0
         /\ obs.save_calls = 0
         /\ current_file = obs.pre_current
         /\ backup_file = obs.pre_backup
         /\ result.kind = "returned" =>
              /\ result.value.rows = obs.pre_current.rows
              /\ result.value.columns = obs.pre_current.header

\* C5: when fetch_or_load fetches and the fetch fails, fetch_or_load returns None,
\* save_data is never called and both files are as before the call, also with
\* force_refresh and a readable current file (which is neither returned nor rotated)
C5_FailedFetchLeavesCache ==
  (op.name = "fetch_or_load" /\ obs.fetch = "failed") =>
    /\ obs.save_calls = 0
    /\ obs.load_calls = 0
    /\ current_file = obs.pre_current
    /\ backup_file = obs.pre_backup
    /\ pc \in {"fol_fetched", "idle"}
    /\ (pc = "idle" => result.kind = "returned" /\ result.value = None)

C5_Witness ==
  /\ Done("fetch_or_load")
  /\ obs.fetch = "failed"
  /\ op.force_refresh
  /\ Exists(obs.pre_current)
  /\ read_csv(obs.pre_current).kind = "DataFrame"
  /\ Exists(obs.pre_backup)
  /\ obs.pre_backup # obs.pre_current
  /\ result.value = None

\* C6 as stated: load_current_data returns the contents of the current file when
\* it exists and None when it does not, whatever the backup file, and changes
\* neither file
C6_LoadReturnsCurrent ==
  Done("load_current_data") =>
    /\ current_file = obs.pre_current
    /\ backup_file = obs.pre_backup
    /\ result.kind = "returned"
    /\ IF Exists(obs.pre_current)
       THEN /\ result.value.kind = "DataFrame"
            /\ result.value.rows = obs.pre_current.rows
            /\ result.value.columns = obs.pre_current.header
       ELSE result.value = None

\* load_current_data on a missing or a parseable current file
LoadNeverFallsBack ==
  Done("load_current_data") =>
    /\ current_file = obs.pre_current
    /\ backup_file = obs.pre_backup
    /\ ~Exists(obs.pre_current) => result.kind = "returned" /\ result.value = None
    /\ (Exists(obs.pre_current) /\ obs.pre_current.header # {}) =>
         /\ result.kind = "returned"
         /\ result.value = read_csv(obs.pre_current)
    /\ (Exists(obs.pre_current) /\ obs.pre_current.header = {}) =>
         /\ result.kind = "raised"
         /\ result.exc = "EmptyDataError"

\* C24: every request of a fetch carries limit = 1000, and the k-th request
\* (k = 0, 1, 2, ...) carries offset 1000 * k: the offsets are multiples of the
\* page size, they increase strictly, no page is asked twice and none is skipped
C24_RequestParameters ==
  \A k \in 1..Len(requests) :
    /\ requests[k].limit = 1000
    /\ requests[k].offset = 1000 * (k - 1)
    /\ requests[k].offset % limit = 0
    /\ k > 1 => requests[k].offset > requests[k - 1].offset

\* a fetch of all the pages of the largest dataset
C24_Witness ==
  /\ Done("fetch_from_api")
  /\ obs.fetch = "ok"
  /\ Len(requests) = MaxPages + 1
  /\ requests[Len(requests)].offset = MaxPages * limit

\* the loop of fetch_from_api does not wait for ever: each GET answers, fails or
\* times out (timeout=60), and the statements between two GETs do not block
FairSpec == Init /\ [][Next]_vars /\ WF_vars(FetchRequest)

\* the records the endpoint answers to the k-th request of the fetch
Answered(k) == Count(Page(obs.pre_n, requests[k].offset, requests[k].limit))

\* C25: a fetch from an endpoint that serves a finite number of records
\* terminates.  Every request but the last was answered with status 200 and 1000
\* records (no request follows a page that is empty or has fewer than 1000
\* records), and a fetch that is left without failure was left on such a page:
\* as long as the pages are full, the next one is requested
C25_FetchTerminates ==
  /\ [](\A k \in 1..(Len(requests) - 1) :
          /\ Answered(k) = limit
          /\ obs.fail_at # k)
  /\ []((obs.fetch = "ok") => Answered(Len(requests)) < limit)
  /\ [](pc = "fetch_loop" =>
          \A k \in 1..Len(requests) : Answered(k) = limit /\ obs.fail_at # k)
  /\ (pc = "fetch_loop") ~> (pc # "fetch_loop")

\* a fetch left on a page with fewer than 1000 records after a full page
C25_Witness ==
  /\ Done("fetch_from_api")
  /\ obs.fetch = "ok"
  /\ Len(requests) = 2
  /\ Answered(1) = limit
  /\ Answered(2) \in 1..(limit - 1)

\* save_data is between two of its statements, or its final write has failed
InsideStore ==
  \/ pc \in {"save_rename", "save_write"}
  \/ pc = "idle" /\ op.name \in {"save_data", "fetch_or_load"} /\ result.exc = "OSError"

\* C26 as stated: a current snapshot that exists when save_data starts still
\* exists at every intermediate point of save_data (after the backup is
\* deleted, after the rename, and if the final write fails), so that a load at
\* that point does not report that there is no file
C26_CurrentSnapshotNeverMissing ==
  (InsideStore /\ Exists(obs.pre_current)) => Exists(LoadSource)

\* what save_data keeps: the snapshot that was current when it started is in
\* one of the two slots at every intermediate point, in the backup slot once
\* the rename is done, the current slot being empty until the write succeeds
StoreKeepsOldSnapshotInASlot ==
  (InsideStore /\ Exists(obs.pre_current)) =>
    /\ pc = "save_rename" => current_file = obs.pre_current /\ ~Exists(backup_file)
    /\ pc # "save_rename" => backup_file = obs.pre_current /\ ~Exists(current_file)

\* the final write has failed after the rename: no current snapshot is left
StoreFailedAfterRename ==
  /\ pc = "idle" /\ op.name = "save_data" /\ result.exc = "OSError"
  /\ Exists(obs.pre_current) /\ Exists(obs.pre_backup)
  /\ ~Exists(current_file)
  /\ backup_file = obs.pre_current

-----------------------------------------------------------------------------
(* The content of the records *)

\* raw cells of the numeric-designated columns, one character per element:
\* "1,234", "bad", "", "56", "-7", "1.5", "1,2,3", "12a"
CellSamples ==
  << <<"1", ",", "2", "3", "4">>, <<"b", "a", "d">>, <<>>, <<"5", "6">>,
     <<"-", "7">>, <<"1", ".", "5">>, <<"1", ",", "2", ",", "3">>, <<"1", "2", "a">> >>

NSamples == Len(CellSamples)

\* records 0 .. NSamples-1 are Ohio behavioural-health records, the next NSamples
\* Michigan dental records, all later ones Michigan behavioural-health records
RawState(id) == IF id < NSamples THEN "Ohio" ELSE "Michigan"

RawCategory(id) ==
  IF id >= NSamples /\ id < 2 * NSamples THEN "Dental" ELSE "Behavioral Health"

\* the columns MedicaidDataCleaner.clean_datatypes converts
numeric_columns ==
  {"Number of Active Patients", "Number of Eligible MCO Patients",
   "Number of Providers", "Percent Of Eligible Patients Receving Services",
   "Number of Services per Active Patient", "Calendar Year"}

\* the sample a column of a record holds: the columns of one record differ
ColumnShift(col) ==
  CASE col = "Number of Active Patients" -> 0
    [] col = "Calendar Year" -> 3
    [] col = "Number of Providers" -> 5
    [] OTHER -> 1

\* the cell of column col in the row object of record id, as the endpoint sends it
RawCell(id, col) ==
  CASE col = "State" -> RawState(id)
    [] col = "Service Category" -> RawCategory(id)
    [] col \in {"County", "MCO Name", "Plan Category"} -> "All"
    [] OTHER -> CellSamples[((id + ColumnShift(col)) % NSamples) + 1]

-----------------------------------------------------------------------------
(* MedicaidDataCleaner.clean_datatypes *)

Digits == {"0", "1", "2", "3", "4", "5", "6", "7", "8", "9"}

DigitValue(c) ==
  CASE c = "0" -> 0 [] c = "1" -> 1 [] c = "2" -> 2 [] c = "3" -> 3 [] c = "4" -> 4
    [] c = "5" -> 5 [] c = "6" -> 6 [] c = "7" -> 7 [] c = "8" -> 8 [] c = "9" -> 9

\* the missing-value marker (NaN)
NaN == [nan |-> TRUE, m |-> 0, e |-> 0]

RECURSIVE Number(_, _)
\* the number m / 10^e, without trailing zeros in its fraction
Number(m, e) ==
  IF e > 0 /\ m % 10 = 0 THEN Number(m \div 10, e - 1)
  ELSE [nan |-> FALSE, m |-> m, e |-> e]

RECURSIVE DigitsValue(_)
DigitsValue(ds) ==
  IF ds = <<>> THEN 0
  ELSE 10 * DigitsValue(SubSeq(ds, 1, Len(ds) - 1)) + DigitValue(ds[Len(ds)])

\* Series.str.replace(',', '')
RemoveCommas_none(s) == s

RemoveCommas(s) == SelectSeq(s, LAMBDA c : c # ",")

\* pd.to_numeric(errors='coerce') of one string of digits, signs, points and
\* letters: an optional sign, digits with at most one decimal point and at least
\* one digit; anything else is coerced to NaN
to_numeric(s) ==
  LET signed == s # <<>> /\ s[1] \in {"+", "-"}
      body == IF signed THEN Tail(s) ELSE s
      points == {i \in 1..Len(body) : body[i] = "."}
      digits == SelectSeq(body, LAMBDA c : c \in Digits)
      wellformed == /\ \A i \in 1..Len(body) : body[i] \in Digits \cup {"."}
                    /\ Cardinality(points) <= 1
                    /\ digits # <<>>
      scale == IF points = {} THEN 0 ELSE Len(body) - (CHOOSE i \in points : TRUE)
      magnitude == DigitsValue(digits)
  IN IF ~wellformed THEN NaN
     ELSE Number(IF signed /\ s[1] = "-" THEN 0 - magnitude ELSE magnitude, scale)

\* pd.to_numeric(df[col].astype(str).str.replace(',', ''), errors='coerce') on one cell
ConvertCell(cell) == to_numeric(RemoveCommas(cell))

\* the columns clean_datatypes converts in df
Converted_all(df) == numeric_columns

Converted(df) == {col \in numeric_columns : col \in df.columns}

\* df = df.copy(); for col in numeric_columns: if col in df.columns: df[col] = ...
clean_datatypes(df) ==
  [df EXCEPT !.numeric = Converted(df), !.columns = df.columns \cup Converted(df)]

\* the object a name refers to after `name = name.copy()` without the copy
copy_same_object(name) == name

\* df.copy(): a new table object, named "copy" here
copy(name) == "copy"

\* the table objects when clean_datatypes returns: "df" is the caller's table,
\* "copy" the object of line 28; the columns are assigned in the object the
\* local name df refers to, and that object is returned
clean_datatypes_objects(df) ==
  LET local == copy("df")
      created == [df |-> df, copy |-> df]
  IN [objects |-> [created EXCEPT ![local] = clean_datatypes(df)], returned |-> local]

\* the value of column col in the row of record id of df
CellValue(df, id, col) ==
  IF col \in df.numeric THEN ConvertCell(RawCell(id, col)) ELSE RawCell(id, col)

-----------------------------------------------------------------------------
(* MedicaidDataCleaner: the filters *)

state_filter == "Michigan"
behavioral_health_category == "Behavioral Health"

RECURSIVE Sorted(_)
\* the elements of a set of integers in ascending order
Sorted(S) ==
  IF S = {} THEN <<>>
  ELSE LET least == CHOOSE x \in S : \A y \in S : x <= y
       IN <<least>> \o Sorted(S \ {least})

\* the records of run r of df whose column col equals value, as runs in the
\* order of r
FilterRun(df, r, col, value) ==
  LET kept == {i \in r.lo..(r.lo + r.len - 1) : CellValue(df, i, col) = value}
      firsts == Sorted({i \in kept : (i - 1) \notin kept})
      lasts == Sorted({i \in kept : (i + 1) \notin kept})
  IN [k \in 1..Len(firsts) |-> [lo |-> firsts[k], len |-> lasts[k] - firsts[k] + 1]]

RECURSIVE Concat(_)
\* the runs of a sequence of sequences of runs, in order
Concat(parts) ==
  IF parts = <<>> THEN <<>>
  ELSE Extend(Concat(SubSeq(parts, 1, Len(parts) - 1)), parts[Len(parts)])

\* df[df[col] == value]: the rows whose column col equals value, in their order
FilterRows(df, col, value) ==
  Concat([k \in 1..Len(df.rows) |-> FilterRun(df, df.rows[k], col, value)])

KeyError ==
  [kind |-> "KeyError", columns |-> {}, rows |-> <<>>, dtype |-> "none", numeric |-> {}]

\* df[df[col] == value].copy(); df[col] raises KeyError when df has no such column
filter_equals(df, col, value) ==
  IF col \notin df.columns THEN KeyError
  ELSE [df EXCEPT !.rows = FilterRows(df, col, value)]

filter_michigan(df) == filter_equals(df, "State", state_filter)

filter_behavioral_health(df) ==
  filter_equals(df, "Service Category", behavioral_health_category)

\* the line a filter prints: rows before -> rows after
Report(stage, before, after) ==
  [stage |-> stage, rows_before |-> Count(before.rows), rows_after |-> Count(after.rows)]

\* len(df) == 0
NoRows_never(df) == FALSE

NoRows(df) == Count(df.rows) = 0

\* the rows the cleaned table is expected to have at least
min_rows == 11000

\* the line the verification of the row count prints
RowCount(df) == IF Count(df.rows) >= min_rows THEN "verified" ELSE "warning"

Outcome(value, exc, reports, stages, row_count) ==
  [ret |-> value, exc |-> exc, reports |-> reports, stages |-> stages,
   row_count |-> row_count]

\* the two filters in the order clean_michigan_behavioral applies them
FilterOrder_swapped == <<"behavioral_health", "michigan">>

FilterOrder == <<"michigan", "behavioral_health">>

ApplyFilter(stage, df) ==
  IF stage = "michigan" THEN filter_michigan(df) ELSE filter_behavioral_health(df)

\* MedicaidDataCleaner.clean_michigan_behavioral: the value returned (None: no
\* rows left), the exception raised if any, the lines the filters printed and
\* the stages that ran
clean_michigan_behavioral(df) ==
  LET typed == clean_datatypes(df)
      first == ApplyFilter(FilterOrder[1], typed)
      second == ApplyFilter(FilterOrder[2], first)
      report1 == Report(FilterOrder[1], typed, first)
      report2 == Report(FilterOrder[2], first, second)
  IN IF first.kind # "DataFrame"
     THEN Outcome(None, first.kind, <<>>, <<FilterOrder[1]>>, "")
     ELSE IF NoRows(first)
     THEN Outcome(None, "", <<report1>>, <<FilterOrder[1]>>, "")
     ELSE IF second.kind # "DataFrame"
     THEN Outcome(None, second.kind, <<report1>>, FilterOrder, "")
     ELSE IF NoRows(second)
     THEN Outcome(None, "", <<report1, report2>>, FilterOrder, "")
     ELSE Outcome(second, "", <<report1, report2>>, FilterOrder, RowCount(second))

-----------------------------------------------------------------------------
(* The specification of the cleaner: each method applied to a table *)

\* the longest run of an input table
MaxRunLen == 4

\* the records the input tables are made of: the Ohio, the Michigan dental and
\* the first Michigan behavioural-health records
CatalogSize == 3 * NSamples

InputRuns ==
  {[lo |-> lo, len |-> len] : lo \in 0..(CatalogSize - 1), len \in 1..MaxRunLen}

\* no row, one run, or two runs in any order
InputRows ==
  {<<>>} \cup {<<r>> : r \in InputRuns}
         \cup {Extend(<<r1>>, <<r2>>) : r1 \in InputRuns, r2 \in InputRuns}

\* the tables with all the columns of the endpoint, and tables that lack some
InputColumns ==
  {api_columns,
   api_columns \ {"State"},
   api_columns \ {"Service Category"},
   api_columns \ {"Calendar Year", "Number of Providers"}}

InputTables ==
  {DataFrame(<<>>)} \cup
  {[kind |-> "DataFrame", columns |-> cols, rows |-> rows, dtype |-> "object",
    numeric |-> {}] : cols \in InputColumns, rows \in InputRows}

NoOutcome == [call |-> "none", out |-> Outcome(None, "", <<>>, <<>>, "")]

InitClean ==
  /\ remote_n = 0
  /\ current_file = NoFile
  /\ backup_file = NoFile
  /\ pc = "idle"
  /\ stack = <<>>
  /\ op = [name |-> "none", force_refresh |-> FALSE, full |-> FALSE]
  /\ loc = NoLocals
  /\ requests = <<>>
  /\ result = NoResult
  /\ obs = ObsInit
  /\ stored = <<>>
  /\ cin \in InputTables
  /\ cout = NoOutcome

\* the outcome of a method that returns a table, or raises
Applied(call, df) ==
  [call |-> call,
   out |-> IF df.kind = "DataFrame" THEN Outcome(df, "", <<>>, <<>>, "")
           ELSE Outcome(None, df.kind, <<>>, <<>>, "")]

CleanDatatypes ==
  /\ cout = NoOutcome
  /\ LET after == clean_datatypes_objects(cin)
     IN /\ cout' = Applied("clean_datatypes", after.objects[after.returned])
        /\ cin' = after.objects.df
  /\ UNCHANGED <<remote_n, current_file, backup_file, pc, stack, op, loc, requests,
                 result, obs, stored>>

FilterMichigan ==
  /\ cout = NoOutcome
  /\ cout' = Applied("filter_michigan", filter_michigan(cin))
  /\ UNCHANGED <<remote_n, current_file, backup_file, pc, stack, op, loc, requests,
                 result, obs, stored, cin>>

FilterBehavioralHealth ==
  /\ cout = NoOutcome
  /\ cout' = Applied("filter_behavioral_health", filter_behavioral_health(cin))
  /\ UNCHANGED <<remote_n, current_file, backup_file, pc, stack, op, loc, requests,
                 result, obs, stored, cin>>

CleanMichiganBehavioral ==
  /\ cout = NoOutcome
  /\ cout' = [call |-> "clean_michigan_behavioral", out |-> clean_michigan_behavioral(cin)]
  /\ cin' = clean_datatypes_objects(cin).objects.df
  /\ UNCHANGED <<remote_n, current_file, backup_file, pc, stack, op, loc, requests,
                 result, obs, stored>>

NextClean ==
  \/ CleanDatatypes
  \/ FilterMichigan
  \/ FilterBehavioralHealth
  \/ CleanMichiganBehavioral

SpecClean == InitClean /\ [][NextClean]_vars

-----------------------------------------------------------------------------
(* Properties of the cleaner *)

RECURSIVE RowIds(_)
\* the record ids of a sequence of runs, one by one
RowIds(rows) ==
  IF rows = <<>> THEN <<>>
  ELSE [k \in 1..Head(rows).len |-> Head(rows).lo + k - 1] \o RowIds(Tail(rows))

InMichigan(id) == RawState(id) = "Michigan"

InMichiganBH(id) == InMichigan(id) /\ RawCategory(id) = "Behavioral Health"

Cleaned == cout.call = "clean_michigan_behavioral"

\* the jurisdiction filter runs and leaves no row
JurisdictionEmpty ==
  /\ "State" \in cin.columns
  /\ SelectSeq(RowIds(cin.rows), InMichigan) = <<>>

\* the category filter runs and leaves no row
CategoryEmpty ==
  /\ "State" \in cin.columns
  /\ SelectSeq(RowIds(cin.rows), InMichigan) # <<>>
  /\ "Service Category" \in cin.columns
  /\ SelectSeq(RowIds(cin.rows), InMichiganBH) = <<>>

\* C8: when the jurisdiction filter leaves no row the category filter is not
\* applied and None is returned; when the category filter leaves no row None is
\* returned; None is returned exactly when a stage leaves no row, and then
\* nothing is raised
C8_EmptyStageReturnsNone ==
  Cleaned =>
    /\ JurisdictionEmpty =>
         /\ cout.out.stages = <<"michigan">>
         /\ Len(cout.out.reports) = 1
         /\ cout.out.ret = None
    /\ CategoryEmpty => cout.out.ret = None
    /\ (cout.out.ret = None /\ cout.out.exc = "") <=> (JurisdictionEmpty \/ CategoryEmpty)
    /\ (JurisdictionEmpty \/ CategoryEmpty) => cout.out.exc = ""

C8_Witness ==
  /\ Cleaned
  /\ JurisdictionEmpty
  /\ Count(cin.rows) > 1
  /\ cout.out.ret = None
  /\ cout.out.stages = <<"michigan">>

\* C9: a table returned by clean_michigan_behavioral holds exactly the rows of the
\* normalized input whose State is Michigan and whose Service Category is
\* Behavioral Health, in their order; the jurisdiction filter runs first; each
\* stage reports rows_after <= rows_before, and the category stage starts from
\* the rows the jurisdiction stage left
C9_ReturnsMichiganBHRows ==
  (Cleaned /\ cout.out.exc = "" /\ cout.out.ret # None) =>
    /\ RowIds(cout.out.ret.rows) = SelectSeq(RowIds(cin.rows), InMichiganBH)
    /\ cout.out.ret.columns = clean_datatypes(cin).columns
    /\ cout.out.ret.numeric = clean_datatypes(cin).numeric
    /\ cout.out.stages = <<"michigan", "behavioral_health">>
    /\ Len(cout.out.reports) = 2
    /\ cout.out.reports[1].stage = "michigan"
    /\ cout.out.reports[2].stage = "behavioral_health"
    /\ cout.out.reports[1].rows_before = Count(cin.rows)
    /\ cout.out.reports[1].rows_after = Len(SelectSeq(RowIds(cin.rows), InMichigan))
    /\ cout.out.reports[2].rows_before = cout.out.reports[1].rows_after
    /\ cout.out.reports[2].rows_after = Count(cout.out.ret.rows)
    /\ \A k \in 1..2 : cout.out.reports[k].rows_after <= cout.out.reports[k].rows_before

C9_Witness ==
  /\ Cleaned
  /\ cout.out.ret # None
  /\ Len(cout.out.ret.rows) = 2
  /\ cout.out.ret.rows[1].lo > cout.out.ret.rows[2].lo
  /\ cout.out.reports[1].rows_after = cout.out.reports[2].rows_before
  /\ cout.out.reports[2].rows_after < cout.out.reports[2].rows_before

\* the numbers the samples of CellSamples stand for, in the same order
SampleValues ==
  << [nan |-> FALSE, m |-> 1234, e |-> 0], NaN, NaN, [nan |-> FALSE, m |-> 56, e |-> 0],
     [nan |-> FALSE, m |-> -7, e |-> 0], [nan |-> FALSE, m |-> 15, e |-> 1],
     [nan |-> FALSE, m |-> 123, e |-> 0], NaN >>

\* the number a raw cell stands for once its thousands separators are removed
Expected(cell) == SampleValues[CHOOSE k \in 1..NSamples : CellSamples[k] = cell]

\* C10: clean_datatypes never raises and keeps the rows; in every
\* numeric-designated column of the input each cell becomes the number it stands
\* for once its commas are removed, and NaN when it stands for none ("1,234",
\* "bad", "", "56" become 1234, NaN, NaN, 56); the other columns keep their cells,
\* and no column is added for a numeric-designated column the input lacks
C10_CoercesNumericColumns ==
  cout.call = "clean_datatypes" =>
    /\ cout.out.exc = ""
    /\ cout.out.ret.kind = "DataFrame"
    /\ cout.out.ret.rows = cin.rows
    /\ cout.out.ret.columns = cin.columns
    /\ \A col \in cin.columns :
         \A k \in 1..Len(RowIds(cin.rows)) :
           LET id == RowIds(cin.rows)[k]
           IN CellValue(cout.out.ret, id, col) =
                IF col \in numeric_columns THEN Expected(RawCell(id, col))
                ELSE RawCell(id, col)

C10_Witness ==
  /\ cout.call = "clean_datatypes"
  /\ "Calendar Year" \notin cin.columns
  /\ "Calendar Year" \notin cout.out.ret.columns
  /\ Len(RowIds(cin.rows)) = 4
  /\ [k \in 1..4 |-> RawCell(RowIds(cin.rows)[k], "Number of Active Patients")]
       = << <<"1", ",", "2", "3", "4">>, <<"b", "a", "d">>, <<>>, <<"5", "6">> >>
  /\ [k \in 1..4 |-> CellValue(cout.out.ret, RowIds(cin.rows)[k], "Number of Active Patients")]
       = << [nan |-> FALSE, m |-> 1234, e |-> 0], NaN, NaN, [nan |-> FALSE, m |-> 56, e |-> 0] >>

-----------------------------------------------------------------------------
(* analyze.py: main and the script body *)

\* the columns the aggregations of main read
analysis_columns ==
  {"County", "MCO Name", "Plan Category", "Calendar Year", "Number of Active Patients",
   "Number of Eligible MCO Patients", "Number of Providers",
   "Number of Services per Active Patient", "Number of Active Patients per Provider"}

\* the status the interpreter ends with after `result = main()`: the script
\* never passes result to sys.exit
ExitStatus(main_result) == 0

\* python analyze.py [--refresh] [--full]
CallMain(refresh, full) ==
  /\ pc = "idle"
  /\ op' = [name |-> "main", force_refresh |-> refresh, full |-> full]
  /\ pc' = "fetch_or_load"
  /\ stack' = <<"main_step2">>
  /\ requests' = <<>>
  /\ result' = NoResult
  /\ loc' = NoLocals
  /\ obs' = ObsInit
  /\ UNCHANGED <<remote_n, current_file, backup_file, stored, cin, cout>>

\* `if df is None: return 1`, then step 2: the cleaning, unless --full
MainStep2 ==
  /\ pc = "main_step2"
  /\ LET df == loc.ret
         cleaned == clean_michigan_behavioral(df)
     IN IF df = None
        THEN /\ pc' = "main_exit"
             /\ obs' = [obs EXCEPT !.main_ret = 1]
             /\ UNCHANGED <<stack, loc, result>>
        ELSE IF op.full
        THEN /\ pc' = "main_analysis"
             /\ loc' = [loc EXCEPT !.df = df]
             /\ UNCHANGED <<stack, result, obs>>
        ELSE IF cleaned.exc # ""
        THEN /\ Raise(cleaned.exc)
             /\ obs' = Crashed([obs EXCEPT !.cleaner_calls = @ + 1, !.cleaner_arg = df])
        ELSE IF cleaned.ret = None
        THEN /\ pc' = "main_exit"
             /\ obs' = [obs EXCEPT !.cleaner_calls = @ + 1, !.cleaner_arg = df,
                                   !.main_ret = 1]
             /\ UNCHANGED <<stack, loc, result>>
        ELSE /\ pc' = "main_analysis"
             /\ loc' = [loc EXCEPT !.df = cleaned.ret]
             /\ obs' = [obs EXCEPT !.cleaner_calls = @ + 1, !.cleaner_arg = df,
                                   !.row_count = cleaned.row_count]
             /\ UNCHANGED <<stack, result>>
  /\ UNCHANGED <<remote_n, current_file, backup_file, op, requests, stored, cin, cout>>

\* step 3: the aggregations and the report.  They raise KeyError on a table
\* without the columns they read, and may raise on rows they do not expect
\* (.iloc[0] of an empty selection)
MainAnalysis ==
  /\ pc = "main_analysis"
  /\ \E completes \in BOOLEAN :
       IF completes /\ analysis_columns \subseteq loc.df.columns
       THEN /\ pc' = "main_launch"
            /\ obs' = [obs EXCEPT !.aggregated = TRUE, !.analysed = loc.df.kind]
            /\ UNCHANGED <<stack, loc, result>>
       ELSE /\ Raise("Exception")
            /\ obs' = Crashed([obs EXCEPT !.analysed = loc.df.kind])
  /\ UNCHANGED <<remote_n, current_file, backup_file, op, requests, stored, cin, cout>>

\* a main thread that joins the browser thread before it goes on
Waits_join(browser) == browser = "sleeping"

\* whether the main thread waits for the browser thread: it is a daemon thread
\* and nothing joins it
Waits(browser) == FALSE

\* what open_browser leaves of an exception of its try block: except: pass
Swallow(outcome) == IF outcome = "raised" THEN "swallowed" ELSE outcome

\* threading.Thread(target=open_browser, daemon=True).start()
MainLaunch ==
  /\ pc = "main_launch"
  /\ pc' = "main_streamlit"
  /\ obs' = [obs EXCEPT !.browser = "sleeping"]
  /\ UNCHANGED <<remote_n, current_file, backup_file, stack, op, loc, requests, result,
                 stored, cin, cout>>

\* the thread: time.sleep(3), then the browser is opened, or an exception is
\* raised in the try block
OpenBrowser ==
  /\ pc \in {"main_streamlit", "main_exit"}
  /\ obs.browser = "sleeping"
  /\ \E outcome \in {"opened", "raised"} :
       obs' = [obs EXCEPT !.browser = Swallow(outcome)]
  /\ UNCHANGED <<remote_n, current_file, backup_file, pc, stack, op, loc, requests,
                 result, stored, cin, cout>>

\* subprocess.run(["streamlit", ...]) until streamlit ends; return 0
MainStreamlit ==
  /\ pc = "main_streamlit"
  /\ ~Waits(obs.browser)
  /\ pc' = "main_exit"
  /\ obs' = [obs EXCEPT !.launched = TRUE, !.main_ret = 0]
  /\ UNCHANGED <<remote_n, current_file, backup_file, stack, op, loc, requests, result,
                 stored, cin, cout>>

\* the script body after main has returned
MainExit ==
  /\ pc = "main_exit"
  /\ pc' = "idle"
  /\ stack' = <<>>
  /\ loc' = NoLocals
  /\ result' = [kind |-> "returned", value |-> None, exc |-> ""]
  /\ obs' = [obs EXCEPT !.exit_status = ExitStatus(obs.main_ret),
                        !.browser = IF @ = "sleeping" THEN "killed" ELSE @]
  /\ UNCHANGED <<remote_n, current_file, backup_file, op, requests, stored, cin, cout>>

-----------------------------------------------------------------------------
(* The specification of the program: analyze.py run again and again *)

\* datasets without record, without Michigan record, without Michigan
\* behavioural-health record, and with such records on one and on two pages
MainNValues == {0, 1, NSamples + 1, 2 * NSamples + 1, limit + 1}

MainFiles == {NoFile} \cup {to_csv(TableOf(n)) : n \in MainNValues}

InitMain ==
  /\ remote_n \in MainNValues
  /\ current_file \in MainFiles
  /\ backup_file \in MainFiles
  /\ pc = "idle"
  /\ stack = <<>>
  /\ op = [name |-> "none", force_refresh |-> FALSE, full |-> FALSE]
  /\ loc = NoLocals
  /\ requests = <<>>
  /\ result = NoResult
  /\ obs = ObsInit
  /\ stored = <<>>
  /\ cin = None
  /\ cout = [call |-> "none", out |-> [ret |-> None, exc |-> "", reports |-> <<>>, stages |-> <<>>]]

NextMain ==
  \/ \E n \in MainNValues : RemotePublish(n)
  \/ \E refresh \in BOOLEAN, full \in BOOLEAN : CallMain(refresh, full)
  \/ FetchOrLoad
  \/ FetchRequest
  \/ FolFetched
  \/ SaveRemoveBackup
  \/ SaveRename
  \/ SaveWrite
  \/ FolReturn
  \/ LoadCurrentData
  \/ MainStep2
  \/ MainAnalysis
  \/ MainLaunch
  \/ OpenBrowser
  \/ MainStreamlit
  \/ MainExit

SpecMain == InitMain /\ [][NextMain]_vars

-----------------------------------------------------------------------------
(* dashboard.py: load_and_process_data and the module body *)

\* streamlit runs the script: df = load_and_process_data()
CallDashboard ==
  /\ pc = "idle"
  /\ op' = [name |-> "dashboard", force_refresh |-> FALSE, full |-> FALSE]
  /\ pc' = "fetch_or_load"
  /\ stack' = <<"dashboard_step2">>
  /\ requests' = <<>>
  /\ result' = NoResult
  /\ loc' = NoLocals
  /\ obs' = ObsInit
  /\ UNCHANGED <<remote_n, current_file, backup_file, stored, cin, cout>>

\* df_clean = cleaner.clean_michigan_behavioral(df), whatever fetch_or_load
\* returned: on None, df.copy() of clean_datatypes raises AttributeError
DashboardStep2 ==
  /\ pc = "dashboard_step2"
  /\ LET df == loc.ret
         cleaned == clean_michigan_behavioral(df)
     IN IF df = None
        THEN /\ Raise("AttributeError")
             /\ obs' = [obs EXCEPT !.cleaner_calls = @ + 1, !.cleaner_arg = df]
        ELSE IF cleaned.exc # ""
        THEN /\ Raise(cleaned.exc)
             /\ obs' = [obs EXCEPT !.cleaner_calls = @ + 1, !.cleaner_arg = df]
        ELSE /\ pc' = "dashboard_body"
             /\ loc' = [loc EXCEPT !.df = cleaned.ret]
             /\ obs' = [obs EXCEPT !.cleaner_calls = @ + 1, !.cleaner_arg = df,
                                   !.row_count = cleaned.row_count]
             /\ UNCHANGED <<stack, result>>
  /\ UNCHANGED <<remote_n, current_file, backup_file, op, requests, stored, cin, cout>>

\* the module body: df['Calendar Year'] of the selectbox, then the metrics and
\* the charts.  On None the subscript raises TypeError, on a table without the
\* column KeyError
DashboardBody ==
  /\ pc = "dashboard_body"
  /\ IF loc.df = None
     THEN /\ Raise("TypeError")
          /\ obs' = [obs EXCEPT !.analysed = loc.df.kind]
     ELSE IF ~(analysis_columns \subseteq loc.df.columns)
     THEN /\ Raise("KeyError")
          /\ obs' = [obs EXCEPT !.analysed = loc.df.kind]
     ELSE /\ pc' = "idle"
          /\ stack' = <<>>
          /\ loc' = NoLocals
          /\ result' = [kind |-> "returned", value |-> None, exc |-> ""]
          /\ obs' = [obs EXCEPT !.aggregated = TRUE, !.analysed = loc.df.kind]
  /\ UNCHANGED <<remote_n, current_file, backup_file, op, requests, stored, cin, cout>>

\* the dashboard run again and again, by itself or for a new session.  It
\* fetches only when there is no current snapshot (force_refresh is False), so
\* that its save_data has nothing to rotate and goes straight to the write
NextDashboard ==
  \/ \E n \in MainNValues : RemotePublish(n)
  \/ CallDashboard
  \/ FetchOrLoad
  \/ FetchRequest
  \/ FolFetched
  \/ SaveWrite
  \/ FolReturn
  \/ LoadCurrentData
  \/ DashboardStep2
  \/ DashboardBody

SpecDashboard == InitMain /\ [][NextDashboard]_vars

-----------------------------------------------------------------------------
(* Properties of the program *)

\* the process of a run has ended
Exited == pc = "idle" /\ op.name = "main" /\ obs.exit_status # -1

\* C7 as stated: a run whose data acquisition fails or whose cleaning leaves no
\* row (main returns 1) stops before any aggregation and before the dashboard and
\* exits with a non-zero status; a run that completes the analysis exits with 0
C7_FailedRunExitsNonZero ==
  Exited =>
    /\ obs.main_ret = 1 =>
         /\ ~obs.aggregated
         /\ ~obs.launched
         /\ obs.exit_status # 0
    /\ obs.main_ret = 0 => obs.aggregated /\ obs.launched /\ obs.exit_status = 0

\* what the script does: a run that main ends with 1 stops before any
\* aggregation and before the dashboard, and the process still exits with 0
FailedRunStopsEarlyAndExitsZero ==
  Exited =>
    /\ obs.main_ret = 1 => ~obs.aggregated /\ ~obs.launched /\ obs.exit_status = 0
    /\ obs.main_ret = 0 => obs.aggregated /\ obs.launched /\ obs.exit_status = 0
    /\ obs.main_ret = -1 => result.kind = "raised" /\ obs.exit_status = 1

\* C22: the sanity warnings change no outcome.  A fetch that succeeds with
\* fewer than expected_min rows returns the table of all the records fetched,
\* and fetch_or_load stores it and returns it; a cleaning that leaves at least
\* one row and fewer than min_rows rows returns the Michigan behavioural-health
\* rows of its argument, the table the filters give without the check
C22_SanityWarningsAdvisory ==
  /\ (obs.fetch = "ok" /\ obs.fetch_warning /\ pc = "fol_fetched") =>
       loc.ret = TableOf(obs.pre_n)
  /\ (obs.fetch = "ok" /\ obs.fetch_warning /\ pc = "main_step2") =>
       /\ loc.ret = TableOf(obs.pre_n)
       /\ current_file = to_csv(TableOf(obs.pre_n))
  /\ (pc = "main_analysis" /\ obs.row_count = "warning") =>
       /\ Count(loc.df.rows) > 0
       /\ RowIds(loc.df.rows) = SelectSeq(RowIds(obs.cleaner_arg.rows), InMichiganBH)
       /\ loc.df = filter_behavioral_health(filter_michigan(clean_datatypes(obs.cleaner_arg)))

\* a run that fetched two pages with the warning and cleaned them with the warning
C22_Witness ==
  /\ pc = "main_analysis"
  /\ obs.fetch = "ok" /\ obs.fetch_warning
  /\ Len(requests) = 2
  /\ obs.row_count = "warning"
  /\ Count(obs.cleaner_arg.rows) = limit + 1
  /\ Count(loc.df.rows) \in 1..(min_rows - 1)
  /\ current_file = to_csv(obs.cleaner_arg)

\* C27: the browser thread is started only once the data is acquired and
\* cleaned and the aggregations are done; the main thread goes on to the
\* dashboard and to its return without waiting for it; its exception is
\* swallowed; a run that started it returns 0 and has launched the dashboard,
\* whether the browser was opened, failed to open or was never tried
C27_BrowserThreadApart ==
  /\ obs.browser # "not_started" =>
       /\ obs.aggregated
       /\ pc \in {"main_streamlit", "main_exit", "idle"}
  /\ pc = "main_streamlit" => ENABLED MainStreamlit
  /\ obs.browser # "raised"
  /\ (Exited /\ obs.browser # "not_started") =>
       /\ obs.browser \in {"opened", "swallowed", "killed"}
       /\ obs.main_ret = 0
       /\ obs.launched
       /\ result.kind = "returned"

\* a run has ended after the browser failed to open
C27_Witness ==
  /\ Exited
  /\ obs.browser = "swallowed"
  /\ obs.main_ret = 0 /\ obs.launched

\* a run has ended before the thread tried to open the browser
RunEndsBeforeBrowser == Exited /\ obs.browser = "killed" /\ obs.launched

\* C30 as stated: the cleaner is called with a table, never with the None of a
\* failed fetch_or_load, and the None of a cleaning that left no row is never
\* given to an aggregation
C30_FailuresStopBeforeNextStage ==
  /\ obs.cleaner_calls > 0 => obs.cleaner_arg.kind = "DataFrame"
  /\ obs.analysed \in {"not_called", "DataFrame"}

\* what analyze.py main does: it returns 1 on either None, so that its cleaner
\* and its aggregations are given tables
MainStopsOnNone ==
  op.name = "main" =>
    /\ obs.cleaner_calls > 0 => obs.cleaner_arg.kind = "DataFrame"
    /\ obs.analysed \in {"not_called", "DataFrame"}
    /\ (pc = "main_exit" /\ ~obs.aggregated) => obs.main_ret = 1

\* what the dashboard does: a failed fetch_or_load ends in the cleaner, a
\* cleaning without row in the module body, each with an exception
DashboardRaisesOnNone ==
  op.name = "dashboard" =>
    /\ (obs.cleaner_calls > 0 /\ obs.cleaner_arg = None) =>
         pc = "idle" /\ result.exc = "AttributeError"
    /\ obs.analysed = "None" => pc = "idle" /\ result.exc = "TypeError"

\* the dashboard has given None to the cleaner after a failed fetch
DashboardCleansNone ==
  /\ op.name = "dashboard"
  /\ obs.fetch = "failed"
  /\ obs.cleaner_arg = None /\ obs.cleaner_calls = 1
  /\ result.exc = "AttributeError"

\* the dashboard has read a column of the None of a cleaning that left no row
DashboardAnalysesNone ==
  /\ op.name = "dashboard"
  /\ obs.cleaner_arg.kind = "DataFrame" /\ Count(obs.cleaner_arg.rows) > 0
  /\ obs.analysed = "None"

-----------------------------------------------------------------------------
(* The aggregations of analyze.py and dashboard.py: numbers *)

RECURSIVE Gcd(_, _)
Gcd(a, b) == IF b = 0 THEN a ELSE Gcd(b, a % b)

Abs(a) == IF a < 0 THEN -a ELSE a

\* a float: the number n / d in lowest terms (d > 0), not-a-number, or the
\* infinity of sign n
Frac(n, d) ==
  LET g == Gcd(Abs(n), Abs(d))
      sign == IF d < 0 THEN -1 ELSE 1
  IN [kind |-> "num", n |-> sign * (n \div g), d |-> sign * (d \div g)]

Num(n) == [kind |-> "num", n |-> n, d |-> 1]

nan == [kind |-> "nan", n |-> 0, d |-> 1]

Inf(sign) == [kind |-> "inf", n |-> sign, d |-> 1]

Sign(a) == IF a.n > 0 THEN 1 ELSE IF a.n < 0 THEN -1 ELSE 0

isna(a) == a.kind = "nan"

\* a > 0, a == 0: comparisons with not-a-number are false
Positive(a) == a.kind # "nan" /\ a.n > 0

IsZero(a) == a.kind = "num" /\ a.n = 0

Add(a, b) ==
  IF isna(a) \/ isna(b) THEN nan
  ELSE IF a.kind = "inf" /\ b.kind = "inf" THEN (IF a.n = b.n THEN a ELSE nan)
  ELSE IF a.kind = "inf" THEN a
  ELSE IF b.kind = "inf" THEN b
  ELSE Frac(a.n * b.d + b.n * a.d, a.d * b.d)

Neg(a) == [a EXCEPT !.n = -a.n]

Sub(a, b) == Add(a, Neg(b))

Mul(a, b) ==
  IF isna(a) \/ isna(b) THEN nan
  ELSE IF a.kind = "inf" \/ b.kind = "inf"
  THEN (IF Sign(a) * Sign(b) = 0 THEN nan ELSE Inf(Sign(a) * Sign(b)))
  ELSE Frac(a.n * b.n, a.d * b.d)

\* a / b of numpy scalars: a zero divisor gives an infinity or not-a-number
\* (and a RuntimeWarning), never an exception
np_divide(a, b) ==
  IF isna(a) \/ isna(b) THEN nan
  ELSE IF a.kind = "inf" THEN (IF b.kind = "inf" THEN nan
                               ELSE Inf(a.n * (IF Sign(b) < 0 THEN -1 ELSE 1)))
  ELSE IF b.kind = "inf" THEN Num(0)
  ELSE IF b.n = 0 THEN (IF a.n = 0 THEN nan ELSE Inf(Sign(a)))
  ELSE Frac(a.n * b.d, a.d * b.n)

ZeroDivisionError == [kind |-> "ZeroDivisionError", n |-> 0, d |-> 1]

\* a / b of the values of a row that iterrows yields.  The row is an object
\* Series: its numbers are Python floats, whose division by zero raises, unless
\* the build keeps them numpy scalars (python_scalars = FALSE)
row_divide(a, b, python_scalars) ==
  IF python_scalars /\ IsZero(b) THEN ZeroDivisionError ELSE np_divide(a, b)

\* a / b of Python ints (a count divided by a len())
int_divide(a, b) == IF b = 0 THEN ZeroDivisionError ELSE Frac(a, b)

Percent(a) == Mul(a, Num(100))

-----------------------------------------------------------------------------
(* The aggregations: the cleaned table *)

\* a row of the cleaned table: the columns the aggregations read
Row(county, mco, plan, year, active, eligible, providers, services, ratio) ==
  ("County" :> county) @@ ("MCO Name" :> mco) @@ ("Plan Category" :> plan) @@
  ("Calendar Year" :> year) @@ ("Number of Active Patients" :> active) @@
  ("Number of Eligible MCO Patients" :> eligible) @@ ("Number of Providers" :> providers) @@
  ("Number of Services per Active Patient" :> services) @@
  ("Number of Active Patients per Provider" :> ratio)

Comprehensive == "Comprehensive MCO"
PIHP == "Behavioral Health Inpatient Specialty Plan (PIHP)"

\* the rows of df that satisfy the mask, in their order
RECURSIVE Select(_, _)
Select(rows, mask) ==
  IF rows = <<>> THEN <<>>
  ELSE LET rest == Select(SubSeq(rows, 1, Len(rows) - 1), mask)
       IN IF mask[Len(rows)] THEN Append(rest, rows[Len(rows)]) ELSE rest

\* df[df[col] == value], df[df[col] != value]
WhereEq(rows, col, value) ==
  LET kept(row) == row[col] = value IN SelectSeq(rows, kept)

WhereNe(rows, col, value) ==
  LET kept(row) == row[col] # value IN SelectSeq(rows, kept)

\* the one element of a set of one element: what an expression is worth, once
The(S) == CHOOSE x \in S : TRUE

\* df[col].sum(): missing values are skipped, the sum of nothing is 0
RECURSIVE sum(_, _)
sum(rows, col) ==
  IF rows = <<>> THEN Num(0)
  ELSE LET head == sum(SubSeq(rows, 1, Len(rows) - 1), col)
           x == rows[Len(rows)][col]
       IN IF isna(x) THEN head ELSE Add(head, x)

\* a < b of two numbers
Less(a, b) == a.n * b.d < b.n * a.d

\* the rows with a value in col, largest first, rows of equal value in their
\* original order (keep='first')
RECURSIVE Ranked(_, _)
Ranked(rows, col) ==
  IF rows = <<>> THEN <<>>
  ELSE LET best == CHOOSE i \in 1..Len(rows) :
                     /\ \A j \in 1..Len(rows) : ~Less(rows[i][col], rows[j][col])
                     /\ \A j \in 1..(i - 1) : Less(rows[j][col], rows[i][col])
           rest == [j \in 1..(Len(rows) - 1) |-> IF j < best THEN rows[j] ELSE rows[j + 1]]
       IN <<rows[best]>> \o Ranked(rest, col)

\* the first n rows as they come, without ranking them
nlargest_unranked(rows, n, col) == SubSeq(rows, 1, Min(n, Len(rows)))

\* df.nlargest(n, col): the n first rows by descending col; the rows without a
\* value come last, in their original order
nlargest(rows, n, col) ==
  LET valued == Select(rows, [i \in 1..Len(rows) |-> ~isna(rows[i][col])])
      missing == Select(rows, [i \in 1..Len(rows) |-> isna(rows[i][col])])
      ordered == Ranked(valued, col) \o missing
  IN SubSeq(ordered, 1, Min(n, Len(ordered)))

-----------------------------------------------------------------------------
(* The aggregations: utilization *)

\* df[df['MCO Name'] == 'All']
all_mco_df(df) == WhereEq(df, "MCO Name", "All")

\* active / eligible * 100, without the test of eligible
Utilization_unguarded(active, eligible) == Percent(np_divide(active, eligible))

\* (active / eligible * 100) if eligible > 0 else 0
Utilization(active, eligible) ==
  IF Positive(eligible) THEN Percent(np_divide(active, eligible)) ELSE Num(0)

\* the rates of the rows, one by one, and their mean
RowRates(rows) ==
  [i \in 1..Len(rows) |->
     ("rate" :> Utilization(rows[i]["Number of Active Patients"],
                            rows[i]["Number of Eligible MCO Patients"]))]

RowsUtilization_mean(rows) ==
  IF rows = <<>> THEN Num(0)
  ELSE np_divide(sum(RowRates(rows), "rate"), Num(Len(rows)))

\* the utilization of a row set: the sums are taken first, then divided
RowsUtilization(rows) ==
  Utilization(sum(rows, "Number of Active Patients"),
              sum(rows, "Number of Eligible MCO Patients"))

\* the county-level rows of the state for 2025
state_rows_2025(df) ==
  WhereNe(WhereEq(all_mco_df(df), "Calendar Year", Num(2025)), "County", "All")

true_state_utilization_2025(df) == RowsUtilization(state_rows_2025(df))

\* section 6: overall
true_utilization(df) == RowsUtilization(all_mco_df(df))

\* all_mco_df['Calendar Year'].unique()
Years(rows) == {rows[i]["Calendar Year"] : i \in 1..Len(rows)}

\* section 6: by year
year_utilization(df) ==
  [year \in Years(all_mco_df(df)) |->
     RowsUtilization(WhereEq(all_mco_df(df), "Calendar Year", year))]

\* dashboard: the Comprehensive MCO rows of the state for a year
mco_rows(df, year) ==
  WhereEq(WhereNe(WhereEq(WhereEq(df, "Calendar Year", Num(year)), "County", "All"),
                  "MCO Name", "All"),
          "Plan Category", Comprehensive)

\* entity / total * 100, without a test of the total
Share(value, total) == Percent(np_divide(value, total))

\* dashboard: calculate_metrics(df, selected_year)
calculate_metrics(df, selected_year) ==
  LET current_data == WhereEq(df, "Calendar Year", Num(selected_year))
      state_data == WhereEq(current_data, "MCO Name", "All")
      total_eligible == sum(state_data, "Number of Eligible MCO Patients")
      total_active == sum(state_data, "Number of Active Patients")
      prev_data == WhereEq(WhereEq(df, "Calendar Year", Num(selected_year - 1)),
                           "MCO Name", "All")
      prev_eligible == sum(prev_data, "Number of Eligible MCO Patients")
      prev_active == sum(prev_data, "Number of Active Patients")
      growth(now, before) ==
        IF Positive(before) THEN Percent(np_divide(Sub(now, before), before)) ELSE Num(0)
      utilization == RowsUtilization(state_data)
      prev_utilization == RowsUtilization(prev_data)
      mco_data == mco_rows(df, selected_year)
      top_mco == nlargest(mco_data, 1, "Number of Active Patients")[1]
  IN [total_eligible |-> total_eligible,
      total_active |-> total_active,
      change_eligible |-> growth(total_eligible, prev_eligible),
      change_active |-> growth(total_active, prev_active),
      utilization |-> utilization,
      prev_utilization |-> prev_utilization,
      utilization_change |-> Sub(utilization, prev_utilization),
      top_mco_name |-> IF mco_data # <<>> THEN top_mco["MCO Name"] ELSE "N/A",
      top_mco_share |->
        IF mco_data # <<>>
        THEN Share(top_mco["Number of Active Patients"],
                   sum(mco_data, "Number of Active Patients"))
        ELSE Num(0)]

-----------------------------------------------------------------------------
(* The aggregations: the metrics calculated before the report *)

\* the statewide rows of the plans (County == 'All', MCO Name != 'All') of 2025
plan_rows_2025(df) ==
  WhereEq(WhereNe(WhereEq(df, "County", "All"), "MCO Name", "All"),
          "Calendar Year", Num(2025))

\* state_services_weighted['Number of Active Patients'] *
\* state_services_weighted['Number of Services per Active Patient']
Products(rows) ==
  [i \in 1..Len(rows) |->
     ("product" :> Mul(rows[i]["Number of Active Patients"],
                       rows[i]["Number of Services per Active Patient"]))]

\* the plain mean of the services column
state_avg_services_mean(rows) ==
  LET valued == Select(rows, [i \in 1..Len(rows) |->
                                ~isna(rows[i]["Number of Services per Active Patient"])])
  IN IF valued = <<>> THEN Num(0)
     ELSE np_divide(sum(valued, "Number of Services per Active Patient"), Num(Len(valued)))

\* total_services / state_total_active_2025 if state_total_active_2025 > 0 else 0
state_avg_services(rows) ==
  LET total_services == sum(Products(rows), "product")
      state_total_active == sum(rows, "Number of Active Patients")
  IN IF Positive(state_total_active) THEN np_divide(total_services, state_total_active)
     ELSE Num(0)

\* lines 105-135 of main
precalculated(df) ==
  [comprehensive_mco_2025 |->
     sum(WhereEq(plan_rows_2025(df), "Plan Category", Comprehensive),
         "Number of Active Patients"),
   pihp_2025 |->
     sum(WhereEq(plan_rows_2025(df), "Plan Category", PIHP), "Number of Active Patients"),
   state_total_active_2025 |-> sum(state_rows_2025(df), "Number of Active Patients"),
   state_total_eligible_2025 |-> sum(state_rows_2025(df), "Number of Eligible MCO Patients"),
   true_state_utilization_2025 |-> true_state_utilization_2025(df),
   state_avg_services_2025 |-> state_avg_services(state_rows_2025(df)),
   total_mi_patients_2025 |-> sum(plan_rows_2025(df), "Number of Active Patients")]

-----------------------------------------------------------------------------
(* The aggregations: the deep dives of sections 8 and 9 *)

\* a value the report does not reach, after an exception
NotComputed == [kind |-> "none", n |-> 0, d |-> 1]

Baseline == [kind |-> "baseline", n |-> 0, d |-> 1]

NotAvailable == [kind |-> "N/A", n |-> 0, d |-> 1]

ValueError == [kind |-> "ValueError", n |-> 0, d |-> 1]

\* the rows with a value in col, smallest first, rows of equal value in their
\* original order
RECURSIVE Ascending(_, _)
Ascending(rows, col) ==
  IF rows = <<>> THEN <<>>
  ELSE LET first == CHOOSE i \in 1..Len(rows) :
                      /\ \A j \in 1..Len(rows) : ~Less(rows[j][col], rows[i][col])
                      /\ \A j \in 1..(i - 1) : Less(rows[i][col], rows[j][col])
           rest == [j \in 1..(Len(rows) - 1) |-> IF j < first THEN rows[j] ELSE rows[j + 1]]
       IN <<rows[first]>> \o Ascending(rest, col)

\* df.sort_values(col): ascending, the rows without a value last
sort_values(rows, col) ==
  Ascending(Select(rows, [i \in 1..Len(rows) |-> ~isna(rows[i][col])]), col)
    \o Select(rows, [i \in 1..Len(rows) |-> isna(rows[i][col])])

\* the names of the top n entities of a comparison set
RECURSIVE Names(_)
Names(rows) ==
  IF rows = <<>> THEN <<>> ELSE <<rows[1]["MCO Name"]>> \o Names(Tail(rows))

top_names(rows, n) == Names(nlargest(rows, n, "Number of Active Patients"))

\* the rows of an entity for 2025, and the first of its statewide rows
entity_2025(df, name) == WhereEq(WhereEq(df, "MCO Name", name), "Calendar Year", Num(2025))

summary_2025(df, name) == WhereEq(entity_2025(df, name), "County", "All")[1]

\* A: active patients of the summary row over the eligible patients of the
\* county rows
entity_eligible(df, name) ==
  sum(WhereNe(entity_2025(df, name), "County", "All"), "Number of Eligible MCO Patients")

entity_utilization(df, name) ==
  Utilization(summary_2025(df, name)["Number of Active Patients"], entity_eligible(df, name))

\* B: the statewide rows of an entity by year
yearly_data(df, name) ==
  sort_values(WhereEq(WhereEq(df, "MCO Name", name), "County", "All"), "Calendar Year")

\* ((patients - prev_year_patients) / prev_year_patients) * 100
Growth(patients, prev, python_scalars) ==
  LET quotient == row_divide(Sub(patients, prev), prev, python_scalars)
  IN IF quotient = ZeroDivisionError THEN quotient ELSE Percent(quotient)

\* the lines the loop over yearly_data prints, up to a line that raises
growth_lines(rows, python_scalars) ==
  LET line(i) ==
        [year |-> rows[i]["Calendar Year"],
         patients |-> rows[i]["Number of Active Patients"],
         growth |-> IF i = 1 THEN Baseline
                    ELSE Growth(rows[i]["Number of Active Patients"],
                                rows[i - 1]["Number of Active Patients"], python_scalars)]
      last == The({IF raising = {} THEN Len(rows)
                   ELSE CHOOSE i \in raising : \A j \in raising : i <= j :
                   raising \in {{i \in 1..Len(rows) : line(i).growth = ZeroDivisionError}}})
  IN [i \in 1..last |-> line(i)]

growth_series(df, name, python_scalars) ==
  The({growth_lines(rows, python_scalars) : rows \in {yearly_data(df, name)}})

Raises(series) == \E i \in 1..Len(series) : series[i].growth = ZeroDivisionError

\* E: provider_growth.loc[year, 'Number of Providers'] if year in the index,
\* else None; a Series when the year is there twice
providers_of(rows, year) ==
  LET found == WhereEq(rows, "Calendar Year", Num(year))
  IN IF found = <<>> THEN [kind |-> "None", n |-> 0, d |-> 1]
     ELSE IF Len(found) > 1 THEN [kind |-> "Series", n |-> 0, d |-> 1]
     ELSE found[1]["Number of Providers"]

Truthy(x) == x.kind # "None" /\ ~IsZero(x)

\* if provider_2020 and provider_2025: the growth, else N/A
provider_growth(df, name) ==
  LET provider_2020 == providers_of(yearly_data(df, name), 2020)
      provider_2025 == providers_of(yearly_data(df, name), 2025)
  IN IF provider_2020.kind = "Series" THEN ValueError
     ELSE IF ~Truthy(provider_2020) THEN NotAvailable
     ELSE IF provider_2025.kind = "Series" THEN ValueError
     ELSE IF ~Truthy(provider_2025) THEN NotAvailable
     ELSE Percent(np_divide(Sub(provider_2025, provider_2020), provider_2020))

\* F: the comparison sets of the market shares
comprehensive_2025(df) == WhereEq(plan_rows_2025(df), "Plan Category", Comprehensive)

pihp_2025_data(df) == WhereEq(plan_rows_2025(df), "Plan Category", PIHP)

market_share(df, name, comparison_set) ==
  Share(summary_2025(df, name)["Number of Active Patients"],
        sum(comparison_set, "Number of Active Patients"))

total_share(df, name) ==
  Share(summary_2025(df, name)["Number of Active Patients"],
        sum(plan_rows_2025(df), "Number of Active Patients"))

potential_market_share(df, name) ==
  Utilization(entity_eligible(df, name),
              sum(WhereEq(WhereEq(all_mco_df(df), "Plan Category", "All"),
                          "Calendar Year", Num(2025)),
                  "Number of Eligible MCO Patients"))

\* the county rows of the Comprehensive MCOs of 2025
county_rankings(df) ==
  WhereEq(WhereNe(WhereNe(WhereEq(df, "Calendar Year", Num(2025)), "County", "All"),
                  "MCO Name", "All"),
          "Plan Category", Comprehensive)

Counties(rows) == {rows[i]["County"] : i \in 1..Len(rows)}

\* the counties where a row of the entity has the largest number, the entity
\* being first of its equals or not
counties_where_largest(df, name) ==
  Cardinality({county \in Counties(county_rankings(df)) :
                 \E i \in 1..Len(county_rankings(df)) :
                   /\ county_rankings(df)[i]["County"] = county
                   /\ county_rankings(df)[i]["MCO Name"] = name
                   /\ county_rankings(df)[i]["Number of Active Patients"] =
                        nlargest(WhereEq(county_rankings(df), "County", county), 1,
                                 "Number of Active Patients")[1]["Number of Active Patients"]})

\* counties_where_leader += 1 for each county whose nlargest(1) row is the entity's
counties_where_leader(df, name) ==
  Cardinality({county \in Counties(county_rankings(df)) :
                 top_names(WhereEq(county_rankings(df), "County", county), 1)[1] = name})

\* counties_where_leader/total_counties*100, without a test
leadership(df, name) ==
  LET quotient == int_divide(counties_where_leader(df, name),
                             Cardinality(Counties(county_rankings(df))))
  IN IF quotient = ZeroDivisionError THEN quotient ELSE Percent(quotient)

\* the report of section 8 on one Comprehensive MCO: the values in the order
\* they are calculated, up to the first exception
mco_values(df, name, series) ==
  LET providers == IF Raises(series) THEN NotComputed ELSE provider_growth(df, name)
      reached == ~Raises(series) /\ providers # ValueError
      leader == IF reached THEN leadership(df, name) ELSE NotComputed
  IN [name |-> name,
      active_patients_total |-> summary_2025(df, name)["Number of Active Patients"],
      eligible_patients_total |-> entity_eligible(df, name),
      utilization |-> entity_utilization(df, name),
      growth |-> series,
      provider_growth |-> providers,
      market_share |-> IF reached THEN market_share(df, name, comprehensive_2025(df))
                       ELSE NotComputed,
      total_share |-> IF reached THEN total_share(df, name) ELSE NotComputed,
      potential_market_share |-> IF reached THEN potential_market_share(df, name)
                                 ELSE NotComputed,
      counties_where_leader |-> IF reached THEN Num(counties_where_leader(df, name))
                                ELSE NotComputed,
      total_counties |-> IF reached THEN Num(Cardinality(Counties(county_rankings(df))))
                         ELSE NotComputed,
      leadership |-> leader,
      exc |-> IF Raises(series) THEN "ZeroDivisionError"
              ELSE IF providers = ValueError THEN "ValueError"
              ELSE IF leader = ZeroDivisionError THEN "ZeroDivisionError"
              ELSE ""]

mco_report(df, name, python_scalars) ==
  The({mco_values(df, name, series) : series \in {growth_series(df, name, python_scalars)}})

\* the report of section 9 on one PIHP
pihp_values(df, name, series) ==
  LET reached == ~Raises(series)
  IN [name |-> name,
      active_patients_total |-> summary_2025(df, name)["Number of Active Patients"],
      eligible_patients_total |-> entity_eligible(df, name),
      utilization |-> entity_utilization(df, name),
      growth |-> series,
      provider_growth |-> NotComputed,
      market_share |-> IF reached THEN market_share(df, name, pihp_2025_data(df))
                       ELSE NotComputed,
      total_share |-> IF reached THEN total_share(df, name) ELSE NotComputed,
      potential_market_share |-> NotComputed,
      counties_where_leader |-> NotComputed,
      total_counties |-> NotComputed,
      leadership |-> NotComputed,
      exc |-> IF Raises(series) THEN "ZeroDivisionError" ELSE ""]

pihp_report(df, name, python_scalars) ==
  The({pihp_values(df, name, series) : series \in {growth_series(df, name, python_scalars)}})

\* the reports of a deep dive on the entities named, until one raises
RECURSIVE Reports(_, _, _, _)
Reports(df, names, plan, python_scalars) ==
  IF names = <<>> THEN <<>>
  ELSE The({IF report.exc # "" THEN <<report>>
            ELSE <<report>> \o Reports(df, Tail(names), plan, python_scalars) :
            report \in {IF plan = PIHP THEN pihp_report(df, names[1], python_scalars)
                        ELSE mco_report(df, names[1], python_scalars)}})

top_n == 5

\* section 8 (plan = Comprehensive) and section 9 (plan = PIHP)
deep_dive(df, plan, python_scalars) ==
  LET comparison_set == WhereEq(plan_rows_2025(df), "Plan Category", plan)
  IN The({[comparison_set |-> comparison_set,
           reports |-> reports,
           exc |-> IF reports = <<>> THEN "" ELSE reports[Len(reports)].exc] :
           reports \in {Reports(df, top_names(comparison_set, top_n), plan, python_scalars)}})

-----------------------------------------------------------------------------
(* The aggregations: yearly totals, top lists, the charts of the dashboard *)

\* the numbers of a set, smallest first
RECURSIVE SortedNumbers(_)
SortedNumbers(S) ==
  IF S = {} THEN <<>>
  ELSE LET least == CHOOSE x \in S : \A y \in S : ~Less(y, x)
       IN <<least>> \o SortedNumbers(S \ {least})

\* the groups in the order the rows give them, without sorting the keys
groupby_sum_unsorted(rows, col) ==
  LET keyed == Select(rows, [i \in 1..Len(rows) |-> ~isna(rows[i]["Calendar Year"])])
      firsts == Select(keyed, [i \in 1..Len(keyed) |->
                  \A j \in 1..(i - 1) : keyed[j]["Calendar Year"] # keyed[i]["Calendar Year"]])
  IN [k \in 1..Len(firsts) |->
        [year |-> firsts[k]["Calendar Year"],
         value |-> sum(WhereEq(rows, "Calendar Year", firsts[k]["Calendar Year"]), col)]]

\* rows.groupby('Calendar Year')[col].sum().sort_index(): one pair per year, by
\* ascending year; rows without a year are in no group
groupby_sum(rows, col) ==
  LET keys == SortedNumbers({year \in Years(rows) : ~isna(year)})
  IN [k \in 1..Len(keys) |->
        [year |-> keys[k], value |-> sum(WhereEq(rows, "Calendar Year", keys[k]), col)]]

\* sections 1 and 2
yearly_totals(df) ==
  [yearly_patients |-> groupby_sum(all_mco_df(df), "Number of Active Patients"),
   yearly_providers |-> groupby_sum(all_mco_df(df), "Number of Providers")]

\* sections 3 and 4
top_lists(df) ==
  [df_2025 |-> WhereEq(all_mco_df(df), "Calendar Year", Num(2025)),
   top_counties |-> nlargest(WhereEq(all_mco_df(df), "Calendar Year", Num(2025)), top_n,
                             "Number of Active Patients"),
   mco_2025 |-> comprehensive_2025(df),
   top_mcos |-> nlargest(comprehensive_2025(df), top_n, "Number of Active Patients")]

\* dashboard: ((prov_current[0] - prov_2020[0]) / prov_2020[0]) * 100 of the
\* statewide rows of one MCO, when it has rows of 2020 and of the selected year
provider_change(df, name, selected_year) ==
  LET mco_all_years == WhereEq(WhereEq(df, "MCO Name", name), "County", "All")
      prov_2020 == WhereEq(mco_all_years, "Calendar Year", Num(2020))
      prov_current == WhereEq(mco_all_years, "Calendar Year", Num(selected_year))
  IN IF prov_2020 # <<>> /\ prov_current # <<>>
     THEN Percent(np_divide(Sub(prov_current[1]["Number of Providers"],
                                prov_2020[1]["Number of Providers"]),
                            prov_2020[1]["Number of Providers"]))
     ELSE NotAvailable

\* dashboard: the charts of the script body that aggregate
charts(df, selected_year) ==
  LET mco_data == mco_rows(df, selected_year)
      names == top_names(mco_data, top_n)
  IN [yearly_eligible |-> groupby_sum(all_mco_df(df), "Number of Eligible MCO Patients"),
      yearly_active |-> groupby_sum(all_mco_df(df), "Number of Active Patients"),
      mco_data |-> mco_data,
      top_5_mcos |-> nlargest(mco_data, top_n, "Number of Active Patients"),
      provider_changes |->
        [k \in 1..Len(names) |->
           [MCO |-> names[k], Change |-> provider_change(df, names[k], selected_year)]]]

-----------------------------------------------------------------------------
(* The aggregations: section 7, patients per provider *)

\* str(ratio_str): the text of a cell, "nan" for a missing cell
str(cell) == IF cell.kind = "str" THEN cell.chars ELSE <<"n", "a", "n">>

\* str.split(':')[0]: the text before the first colon, all of it without colon
BeforeColon(chars) ==
  LET colons == {i \in 1..Len(chars) : chars[i] = ":"}
  IN IF colons = {} THEN chars
     ELSE SubSeq(chars, 1, (CHOOSE i \in colons : \A j \in colons : i <= j) - 1)

\* s.strip(): without the blanks around it
RECURSIVE Strip(_)
Strip(chars) ==
  IF chars # <<>> /\ chars[1] = " " THEN Strip(Tail(chars))
  ELSE IF chars # <<>> /\ chars[Len(chars)] = " " THEN Strip(SubSeq(chars, 1, Len(chars) - 1))
  ELSE chars

\* int(text): blanks around, an optional sign, one digit or more; anything
\* else raises ValueError, given here as not-a-number
int(chars) ==
  LET text == Strip(chars)
      signed == text # <<>> /\ text[1] \in {"+", "-"}
      body == IF signed THEN Tail(text) ELSE text
      wellformed == body # <<>> /\ \A i \in 1..Len(body) : body[i] \in Digits
  IN IF ~wellformed THEN nan
     ELSE Num(IF signed /\ text[1] = "-" THEN 0 - DigitsValue(body) ELSE DigitsValue(body))

\* extract_ratio with 0 for a cell that does not parse
extract_ratio_zero(cell) ==
  IF int(BeforeColon(str(cell))) = nan THEN Num(0) ELSE int(BeforeColon(str(cell)))

\* extract_ratio: the integer before the first colon; None, which the column
\* holds as a missing value, when int() raises
extract_ratio(cell) == int(BeforeColon(str(cell)))

\* the column Patients_Per_Provider of all_mco_df
with_ratio(rows) ==
  [i \in 1..Len(rows) |->
     ("Calendar Year" :> rows[i]["Calendar Year"]) @@
     ("Patients_Per_Provider" :> extract_ratio(rows[i]["Number of Active Patients per Provider"]))]

\* Series.mean(): the mean of the values that are not missing, not-a-number
\* when there is none
mean(rows, col) ==
  LET valid == Select(rows, [i \in 1..Len(rows) |-> ~isna(rows[i][col])])
  IN IF valid = <<>> THEN nan ELSE np_divide(sum(valid, col), Num(Len(valid)))

\* section 7
section7(df) ==
  LET rows == with_ratio(all_mco_df(df))
      valid_ratios == Select(rows, [i \in 1..Len(rows) |->
                                      ~isna(rows[i]["Patients_Per_Provider"])])
      years == SortedNumbers({year \in Years(valid_ratios) : ~isna(year)})
  IN [extracted |-> [i \in 1..Len(rows) |-> rows[i]["Patients_Per_Provider"]],
      avg_ratio |-> IF valid_ratios # <<>> THEN mean(valid_ratios, "Patients_Per_Provider")
                    ELSE NotComputed,
      yearly_ratios |->
        IF valid_ratios = <<>> THEN <<>>
        ELSE [k \in 1..Len(years) |->
                [year |-> years[k],
                 value |-> mean(WhereEq(rows, "Calendar Year", years[k]),
                                "Patients_Per_Provider")]]]

-----------------------------------------------------------------------------
(* The specification of the aggregations: each one applied to a cleaned table *)

\* the longest table (the tables of the ranking are RankExtra rows longer)
MaxRows == 3

Str(chars) == [kind |-> "str", chars |-> chars]

\* rows of the state (MCO Name == 'All'), and one row of a plan
UtilRows ==
  {Row("Kent", "All", "All", Num(2025), Num(10), Num(20), Num(4), Num(2),
       Str(<<"1", "2", ":", "1">>)),
   Row("Wayne", "All", "All", Num(2025), Num(5), Num(100), Num(0), nan,
       Str(<<"a", "b", "c">>)),
   Row("All", "All", "All", Num(2025), Num(15), Num(0), Num(2), Num(3),
       Str(<<"8", ":", "1">>)),
   Row("Kent", "All", "All", Num(2024), nan, Num(50), Num(1), Num(4), nan),
   Row("Wayne", "All", "All", Num(2024), Num(7), Num(0), Num(3), Num(1),
       Str(<<"8", ":", "1">>)),
   Row("Kent", "All", "All", nan, Num(4), Num(40), Num(1), Num(2), Str(<<":", "4">>)),
   Row("Kent", "Aetna", Comprehensive, Num(2025), Num(3), Num(30), Num(1), Num(5),
       Str(<<"3", ":", "1">>))}

\* rows of the plans of 2025
McoRows ==
  {Row("All", "Aetna", Comprehensive, Num(2025), Num(10), Num(0), Num(4), Num(2), nan),
   Row("All", "Molina", Comprehensive, Num(2025), Num(30), Num(0), Num(5), Num(2), nan),
   Row("All", "Aetna", PIHP, Num(2025), Num(100), Num(0), Num(9), Num(7), nan),
   Row("All", "Zeta", Comprehensive, Num(2025), Num(0), Num(0), Num(0), nan, nan),
   Row("All", "Omega", Comprehensive, Num(2025), nan, Num(0), nan, nan, nan),
   Row("All", "Beacon", PIHP, Num(2025), Num(0), Num(0), Num(1), Num(1), nan),
   Row("Kent", "Aetna", Comprehensive, Num(2025), Num(6), Num(60), Num(2), Num(2), nan),
   Row("Kent", "Molina", Comprehensive, Num(2025), Num(6), Num(0), Num(2), Num(2), nan),
   Row("Wayne", "Molina", Comprehensive, Num(2025), Num(2), Num(5), Num(1), Num(2), nan)}

\* the years of one plan
GrowthRows ==
  {Row("All", "Gamma", Comprehensive, Num(2023), Num(100), Num(0), Num(5), Num(2), nan),
   Row("All", "Gamma", Comprehensive, Num(2024), Num(150), Num(0), Num(6), Num(2), nan),
   Row("All", "Gamma", Comprehensive, Num(2025), Num(120), Num(0), Num(8), Num(2), nan),
   Row("All", "Gamma", Comprehensive, Num(2024), Num(0), Num(0), Num(0), Num(2), nan),
   Row("All", "Gamma", Comprehensive, Num(2020), Num(80), Num(0), Num(0), Num(2), nan),
   Row("All", "Gamma", Comprehensive, Num(2020), Num(90), Num(0), Num(4), Num(2), nan),
   Row("Kent", "Gamma", Comprehensive, Num(2025), Num(12), Num(40), Num(2), Num(2), nan)}

\* plans of 2025 to rank, two of them with the same number of patients
RankRows ==
  {Row("All", "A", Comprehensive, Num(2025), Num(10), Num(0), Num(1), Num(2), nan),
   Row("All", "B", Comprehensive, Num(2025), Num(30), Num(0), Num(1), Num(2), nan),
   Row("All", "C", Comprehensive, Num(2025), Num(10), Num(0), Num(1), Num(2), nan)}

RankExtra == MaxRows + 3

Tables(universe, longest) == UNION {[1..k -> universe] : k \in 0..longest}

AggTables ==
  Tables(UtilRows, MaxRows) \cup Tables(McoRows, MaxRows) \cup
  Tables(GrowthRows, MaxRows) \cup Tables(RankRows, RankExtra)

NoCall == [call |-> "none"]

InitAgg ==
  /\ remote_n = 0
  /\ current_file = NoFile
  /\ backup_file = NoFile
  /\ pc = "idle"
  /\ stack = <<>>
  /\ op = [name |-> "none", force_refresh |-> FALSE, full |-> FALSE]
  /\ loc = NoLocals
  /\ requests = <<>>
  /\ result = NoResult
  /\ obs = ObsInit
  /\ stored = <<>>
  /\ cin \in AggTables
  /\ cout = NoCall

\* lines 105-135
Precalculate ==
  /\ cout = NoCall
  /\ cout' = [call |-> "precalculated", out |-> precalculated(cin)]
  /\ UNCHANGED <<remote_n, current_file, backup_file, pc, stack, op, loc, requests,
                 result, obs, stored, cin>>

\* section 6
Section6 ==
  /\ cout = NoCall
  /\ cout' = [call |-> "section6",
              out |-> [true_utilization |-> true_utilization(cin),
                       year_utilization |-> year_utilization(cin)]]
  /\ UNCHANGED <<remote_n, current_file, backup_file, pc, stack, op, loc, requests,
                 result, obs, stored, cin>>

SelectableYears == {2024, 2025}

\* dashboard: calculate_metrics(df, selected_year)
CalculateMetrics ==
  /\ cout = NoCall
  /\ \E selected_year \in SelectableYears :
       cout' = [call |-> "calculate_metrics", selected_year |-> selected_year,
                out |-> calculate_metrics(cin, selected_year)]
  /\ UNCHANGED <<remote_n, current_file, backup_file, pc, stack, op, loc, requests,
                 result, obs, stored, cin>>

\* sections 8 and 9
DeepDive ==
  /\ cout = NoCall
  /\ \E plan \in {Comprehensive, PIHP}, python_scalars \in BOOLEAN :
       cout' = [call |-> "deep_dive", plan |-> plan, python_scalars |-> python_scalars,
                out |-> deep_dive(cin, plan, python_scalars)]
  /\ UNCHANGED <<remote_n, current_file, backup_file, pc, stack, op, loc, requests,
                 result, obs, stored, cin>>

\* sections 1 and 2
YearlyTotals ==
  /\ cout = NoCall
  /\ cout' = [call |-> "yearly_totals", out |-> yearly_totals(cin)]
  /\ UNCHANGED <<remote_n, current_file, backup_file, pc, stack, op, loc, requests,
                 result, obs, stored, cin>>

\* sections 3 and 4
TopLists ==
  /\ cout = NoCall
  /\ cout' = [call |-> "top_lists", out |-> top_lists(cin)]
  /\ UNCHANGED <<remote_n, current_file, backup_file, pc, stack, op, loc, requests,
                 result, obs, stored, cin>>

\* dashboard: the charts drawn for the selected year
Charts ==
  /\ cout = NoCall
  /\ \E selected_year \in SelectableYears :
       cout' = [call |-> "charts", selected_year |-> selected_year,
                out |-> charts(cin, selected_year)]
  /\ UNCHANGED <<remote_n, current_file, backup_file, pc, stack, op, loc, requests,
                 result, obs, stored, cin>>

\* the table objects of section 7: "df" is the table main analyses,
\* "all_mco_df" the selection of line 138, "copy" the object of line 220; the
\* column Patients_Per_Provider is assigned in the object the name all_mco_df
\* refers to
section7_objects(df) ==
  LET local == copy("all_mco_df")
      created == [df |-> df, all_mco_df |-> all_mco_df(df), copy |-> all_mco_df(df)]
  IN [created EXCEPT ![local] = with_ratio(all_mco_df(df))]

\* section 7
Section7 ==
  /\ cout = NoCall
  /\ cout' = [call |-> "section7", out |-> section7(cin)]
  /\ cin' = section7_objects(cin).df
  /\ UNCHANGED <<remote_n, current_file, backup_file, pc, stack, op, loc, requests,
                 result, obs, stored>>

NextAgg ==
  \/ Precalculate
  \/ YearlyTotals
  \/ TopLists
  \/ Section6
  \/ Section7
  \/ DeepDive
  \/ CalculateMetrics
  \/ Charts

SpecAgg == InitAgg /\ [][NextAgg]_vars

-----------------------------------------------------------------------------
(* Properties of the aggregations *)

\* the sum of the values of column col over the rows of df numbered in I
RECURSIVE SumOver(_, _, _)
SumOver(df, I, col) ==
  IF I = {} THEN 0
  ELSE LET i == CHOOSE x \in I : TRUE
       IN (IF isna(df[i][col]) THEN 0 ELSE df[i][col].n) + SumOver(df, I \ {i}, col)

\* the rows of the state, of all years and of one year
StateRows(df) == {i \in 1..Len(df) : df[i]["MCO Name"] = "All"}

StateRowsOf(df, year) == {i \in StateRows(df) : df[i]["Calendar Year"] = year}

\* rate is 100 * (sum of active over I) / (sum of eligible over I)
IsRateOfSums(rate, df, I) ==
  /\ rate.kind = "num"
  /\ rate.n * SumOver(df, I, "Number of Eligible MCO Patients")
       = 100 * SumOver(df, I, "Number of Active Patients") * rate.d

CountyStateRows2025(df) ==
  {i \in StateRowsOf(df, Num(2025)) : df[i]["County"] # "All"}

EntityCountyRows2025(df, name) ==
  {i \in 1..Len(df) : /\ df[i]["MCO Name"] = name
                      /\ df[i]["Calendar Year"] = Num(2025)
                      /\ df[i]["County"] # "All"}

Eligible(df, I) == SumOver(df, I, "Number of Eligible MCO Patients")

\* C12: every utilization (overall, per year, of the state for 2025, of each MCO
\* and PIHP of a deep dive, of the selected year and of the year before it in
\* calculate_metrics) is the number 0 when the eligible patients of its rows sum
\* to zero
C12_ZeroEligibleGivesZero ==
  /\ cout.call = "precalculated" =>
       (Eligible(cin, CountyStateRows2025(cin)) = 0
          => cout.out.true_state_utilization_2025 = Num(0))
  /\ cout.call = "section6" =>
       /\ Eligible(cin, StateRows(cin)) = 0 => cout.out.true_utilization = Num(0)
       /\ \A year \in DOMAIN cout.out.year_utilization :
            Eligible(cin, StateRowsOf(cin, year)) = 0
              => cout.out.year_utilization[year] = Num(0)
  /\ cout.call = "calculate_metrics" =>
       /\ Eligible(cin, StateRowsOf(cin, Num(cout.selected_year))) = 0
            => cout.out.utilization = Num(0)
       /\ Eligible(cin, StateRowsOf(cin, Num(cout.selected_year - 1))) = 0
            => cout.out.prev_utilization = Num(0)
  /\ cout.call = "deep_dive" =>
       \A k \in 1..Len(cout.out.reports) :
         Eligible(cin, EntityCountyRows2025(cin, cout.out.reports[k].name)) = 0
           => cout.out.reports[k].utilization = Num(0)

\* rows of the state with active patients and no eligible patient
C12_Witness ==
  /\ cout.call = "section6"
  /\ StateRows(cin) # {}
  /\ Eligible(cin, StateRows(cin)) = 0
  /\ SumOver(cin, StateRows(cin), "Number of Active Patients") > 0
  /\ cout.out.true_utilization = Num(0)

\* the statewide rows of the plans of a year, and those of one plan category
PlanRows(df, year) ==
  {i \in 1..Len(df) : /\ df[i]["County"] = "All"
                      /\ df[i]["MCO Name"] # "All"
                      /\ df[i]["Calendar Year"] = Num(year)}

ComparisonRows(df, year, plan) == {i \in PlanRows(df, year) : df[i]["Plan Category"] = plan}

Active(df, I) == SumOver(df, I, "Number of Active Patients")

\* C13 as stated: every market share (of the Comprehensive MCO market, of the
\* PIHP market, of the total active population, top_mco_share of the dashboard) is
\* the number 0 when the active patients of its comparison set sum to zero
C13_ZeroTotalGivesZero ==
  /\ cout.call = "deep_dive" =>
       \A k \in 1..Len(cout.out.reports) :
         LET report == cout.out.reports[k]
         IN /\ (report.market_share # NotComputed
                  /\ Active(cin, ComparisonRows(cin, 2025, cout.plan)) = 0)
                 => report.market_share = Num(0)
            /\ (report.total_share # NotComputed /\ Active(cin, PlanRows(cin, 2025)) = 0)
                 => report.total_share = Num(0)
  /\ cout.call = "calculate_metrics" =>
       (Active(cin, ComparisonRows(cin, cout.selected_year, Comprehensive)) = 0
          => cout.out.top_mco_share = Num(0))

\* what the code does: a market share over a comparison set of rows whose
\* active patients sum to zero is not-a-number or an infinity, never 0
ZeroTotalGivesNoNumber ==
  /\ cout.call = "deep_dive" =>
       \A k \in 1..Len(cout.out.reports) :
         LET report == cout.out.reports[k]
         IN (report.market_share # NotComputed
               /\ Active(cin, ComparisonRows(cin, 2025, cout.plan)) = 0)
              => report.market_share.kind \in {"nan", "inf"}
  /\ cout.call = "calculate_metrics" =>
       ((ComparisonRows(cin, cout.selected_year, Comprehensive) # {}
           /\ Active(cin, ComparisonRows(cin, cout.selected_year, Comprehensive)) = 0)
          => cout.out.top_mco_share.kind \in {"nan", "inf"})

\* the county rows of the Comprehensive MCOs of 2025
CountyRankingRows(df) ==
  {i \in 1..Len(df) : /\ df[i]["Calendar Year"] = Num(2025)
                      /\ df[i]["County"] # "All"
                      /\ df[i]["MCO Name"] # "All"
                      /\ df[i]["Plan Category"] = Comprehensive}

\* the statewide rows of an entity for a year
EntityRows(df, name, year) ==
  {i \in 1..Len(df) : /\ df[i]["MCO Name"] = name
                      /\ df[i]["County"] = "All"
                      /\ df[i]["Calendar Year"] = Num(year)}

\* C14 as stated: the year-over-year growth after a year of 0 patients, the
\* provider growth from a 2020 count of 0 (report and dashboard) and the
\* leadership percentage without county row of a Comprehensive MCO are the number
\* 0, and none of them raises
C14_OtherDivisionsGuarded ==
  /\ cout.call = "deep_dive" =>
       \A k \in 1..Len(cout.out.reports) :
         LET report == cout.out.reports[k]
         IN /\ \A i \in 2..Len(report.growth) :
                 IsZero(report.growth[i - 1].patients) => report.growth[i].growth = Num(0)
            /\ (report.provider_growth # NotComputed
                  /\ \E i \in EntityRows(cin, report.name, 2020) :
                       IsZero(cin[i]["Number of Providers"])
                  /\ EntityRows(cin, report.name, 2025) # {})
                 => report.provider_growth = Num(0)
            /\ (cout.plan = Comprehensive /\ CountyRankingRows(cin) = {})
                 => report.leadership = Num(0) /\ report.exc = ""
  /\ cout.call = "charts" =>
       \A k \in 1..Len(cout.out.provider_changes) :
         LET change == cout.out.provider_changes[k]
         IN (\A i \in EntityRows(cin, change.MCO, 2020) : IsZero(cin[i]["Number of Providers"]))
              => change.Change \in {Num(0), NotAvailable}

\* what the code does with these zero denominators: the growth after a year
\* of 0 patients raises or is not a number, the leadership percentage without
\* county row never gets calculated or raises, and the provider change of the
\* dashboard from a 2020 count of 0 is not a number
ZeroDenominatorsNotGuarded ==
  /\ cout.call = "deep_dive" =>
       \A k \in 1..Len(cout.out.reports) :
         LET report == cout.out.reports[k]
         IN /\ \A i \in 2..Len(report.growth) :
                 IsZero(report.growth[i - 1].patients) =>
                   \/ report.growth[i].growth = ZeroDivisionError /\ cout.out.exc # ""
                   \/ report.growth[i].growth.kind \in {"nan", "inf"}
            /\ (cout.plan = Comprehensive /\ CountyRankingRows(cin) = {})
                 => report.leadership \in {NotComputed, ZeroDivisionError} /\ report.exc # ""
  /\ cout.call = "charts" =>
       \A k \in 1..Len(cout.out.provider_changes) :
         LET change == cout.out.provider_changes[k]
         IN (\E i \in EntityRows(cin, change.MCO, 2020) :
               /\ IsZero(cin[i]["Number of Providers"])
               /\ \A j \in EntityRows(cin, change.MCO, 2020) : i <= j)
              => change.Change.kind \in {"nan", "inf", "N/A"}

\* the sum of the market shares of the reports
RECURSIVE SumOfShares(_)
SumOfShares(reports) ==
  IF reports = <<>> THEN Num(0)
  ELSE Add(reports[1].market_share, SumOfShares(Tail(reports)))

\* every row of the comparison set has a number of active patients
AllCounted(df, I) == \A i \in I : ~isna(df[i]["Number of Active Patients"])

\* C15 as stated: in the deep dive on the Comprehensive MCOs, over a comparison
\* set of counted rows with a positive total, the market share of an MCO is 100 *
\* (the active patients of a row of that MCO in the comparison set) / (the total
\* of the set), lies in [0, 100], and the shares of the MCOs of the set sum to 100
C15_ShareWithinComparisonSet ==
  (/\ cout.call = "deep_dive"
   /\ cout.plan = Comprehensive
   /\ AllCounted(cin, ComparisonRows(cin, 2025, Comprehensive))
   /\ Active(cin, ComparisonRows(cin, 2025, Comprehensive)) > 0) =>
    LET set == ComparisonRows(cin, 2025, Comprehensive)
        reports == cout.out.reports
    IN /\ \A k \in 1..Len(reports) :
            reports[k].market_share # NotComputed =>
              /\ reports[k].market_share.kind = "num"
              /\ \E i \in set :
                   /\ cin[i]["MCO Name"] = reports[k].name
                   /\ reports[k].market_share.n * Active(cin, set)
                        = 100 * cin[i]["Number of Active Patients"].n
                            * reports[k].market_share.d
              /\ ~Less(reports[k].market_share, Num(0))
              /\ ~Less(Num(100), reports[k].market_share)
       /\ (Len(reports) = Cardinality(set)
             /\ \A k \in 1..Len(reports) : reports[k].market_share # NotComputed)
            => SumOfShares(reports) = Num(100)

\* the statewide rows of an entity that have a year
StatewideRows(df, name) ==
  {i \in 1..Len(df) : /\ df[i]["MCO Name"] = name
                      /\ df[i]["County"] = "All"
                      /\ ~isna(df[i]["Calendar Year"])}

\* line i of a series reports the growth from the line before it
IsGrowthLine(series, i) ==
  LET now == series[i].patients
      before == series[i - 1].patients
      growth == series[i].growth
  IN /\ growth.kind = "num"
     /\ growth.n * before.n = 100 * (now.n - before.n) * growth.d

\* the series has one line per year of the entity, by ascending year, the
\* first one the baseline and every later one the growth from the year before
IsGrowthSeries(df, name, series) ==
  /\ Len(series) = Cardinality({df[i]["Calendar Year"] : i \in StatewideRows(df, name)})
  /\ \A i \in 1..Len(series) :
       \E j \in StatewideRows(df, name) :
         /\ df[j]["Calendar Year"] = series[i].year
         /\ df[j]["Number of Active Patients"] = series[i].patients
  /\ \A i \in 2..Len(series) : Less(series[i - 1].year, series[i].year)
  /\ Len(series) > 0 => series[1].growth = Baseline
  /\ \A i \in 2..Len(series) : IsGrowthLine(series, i)

\* C16 as stated: the growth series of every entity of a deep dive, over its
\* statewide rows with a number of patients, has one value per year in ascending
\* year order, the first year as baseline and for every later year
\* (value - previous) / previous * 100
C16_GrowthSeries ==
  cout.call = "deep_dive" =>
    \A k \in 1..Len(cout.out.reports) :
      AllCounted(cin, StatewideRows(cin, cout.out.reports[k].name)) =>
        IsGrowthSeries(cin, cout.out.reports[k].name, cout.out.reports[k].growth)

\* what the code does: the series is as stated for an entity with one
\* statewide row per year and no year of 0 patients before another one
GrowthSeriesOfDistinctNonZeroYears ==
  cout.call = "deep_dive" =>
    \A k \in 1..Len(cout.out.reports) :
      LET rows == StatewideRows(cin, cout.out.reports[k].name)
      IN (/\ AllCounted(cin, rows)
          /\ \A i \in rows, j \in rows :
               i # j => cin[i]["Calendar Year"] # cin[j]["Calendar Year"]
          /\ \A i \in rows :
               IsZero(cin[i]["Number of Active Patients"])
                 => \A j \in rows : ~Less(cin[i]["Calendar Year"], cin[j]["Calendar Year"]))
           => IsGrowthSeries(cin, cout.out.reports[k].name, cout.out.reports[k].growth)

\* the series [100, 150, 120] gives [baseline, +50%, -20%]
GrowthSeriesExample ==
  /\ cout.call = "deep_dive"
  /\ Len(cout.out.reports) = 1
  /\ Len(cout.out.reports[1].growth) = 3
  /\ cout.out.reports[1].growth[1] = [year |-> Num(2023), patients |-> Num(100), growth |-> Baseline]
  /\ cout.out.reports[1].growth[2] = [year |-> Num(2024), patients |-> Num(150), growth |-> Num(50)]
  /\ cout.out.reports[1].growth[3] = [year |-> Num(2025), patients |-> Num(120), growth |-> Num(-20)]

\* a ranks below b: a missing value ranks below every number
Below(a, b) == IF isna(a) THEN ~isna(b) ELSE ~isna(b) /\ Less(a, b)

\* how many of the rows numbered in I, and of the rows of a list, equal row
CountIn(df, I, row) == Cardinality({i \in I : df[i] = row})

CountOf(list, row) == Cardinality({k \in 1..Len(list) : list[k] = row})

\* top is a top-n ranking by active patients of the rows of df numbered in I
IsTopN(top, n, df, I) ==
  /\ Len(top) = Min(n, Cardinality(I))
  /\ \A k \in 1..Len(top) : CountOf(top, top[k]) <= CountIn(df, I, top[k])
  /\ \A k \in 1..(Len(top) - 1) :
       ~Below(top[k]["Number of Active Patients"], top[k + 1]["Number of Active Patients"])
  /\ \A i \in I :
       CountOf(top, df[i]) < CountIn(df, I, df[i]) =>
         \A k \in 1..Len(top) :
           ~Below(top[k]["Number of Active Patients"], df[i]["Number of Active Patients"])

\* C17: the top 5 of sections 3 and 4 and of the dashboard are min(5, |S|) rows
\* of the row set S they rank, by non-increasing active patients, and no row
\* left out has more active patients than a row returned
C17_TopNRanking ==
  /\ cout.call = "top_lists" =>
       /\ IsTopN(cout.out.top_counties, top_n, cin, StateRowsOf(cin, Num(2025)))
       /\ IsTopN(cout.out.top_mcos, top_n, cin, ComparisonRows(cin, 2025, Comprehensive))
  /\ cout.call = "charts" =>
       IsTopN(cout.out.top_5_mcos, top_n, cin,
              ComparisonRows(cin, cout.selected_year, Comprehensive))

\* the top 5 of the three rows of 10, 30 and 10 patients are the three rows,
\* the one of 30 first
C17_Witness ==
  /\ cout.call = "top_lists"
  /\ Len(cin) = 3
  /\ ComparisonRows(cin, 2025, Comprehensive) = {1, 2, 3}
  /\ cin[1]["Number of Active Patients"] = Num(10)
  /\ cin[2]["Number of Active Patients"] = Num(30)
  /\ cin[3]["Number of Active Patients"] = Num(10)
  /\ cout.out.top_mcos = <<cin[2], cin[1], cin[3]>>

\* more rows than 5: the row of 30 patients, the sixth, comes first and a row
\* of 10 is left out
TopNTruncates ==
  /\ cout.call = "top_lists"
  /\ Len(cin) = top_n + 1
  /\ ComparisonRows(cin, 2025, Comprehensive) = 1..(top_n + 1)
  /\ \A i \in 1..top_n : cin[i]["Number of Active Patients"] = Num(10)
  /\ cin[top_n + 1]["Number of Active Patients"] = Num(30)
  /\ Len(cout.out.top_mcos) = top_n
  /\ cout.out.top_mcos[1] = cin[top_n + 1]

\* the years of the rows of the state
StateYears(df) ==
  {df[i]["Calendar Year"] : i \in {j \in StateRows(df) : ~isna(df[j]["Calendar Year"])}}

\* pairs are the sums of column col over the rows of the state, year by year
IsYearlySum(pairs, df, col) ==
  /\ Len(pairs) = Cardinality(StateYears(df))
  /\ {pairs[k].year : k \in 1..Len(pairs)} = StateYears(df)
  /\ \A k \in 1..Len(pairs) :
       pairs[k].value = Num(SumOver(df, StateRowsOf(df, pairs[k].year), col))
  /\ \A k \in 1..(Len(pairs) - 1) : Less(pairs[k].year, pairs[k + 1].year)

\* C18: the yearly sums of sections 1 and 2 and of the dashboard keep exactly
\* the rows with MCO Name == 'All' and give one pair per year among them, its
\* value the sum of the metric over the kept rows of that year, by strictly
\* ascending year
C18_YearlySumOfStateRows ==
  /\ cout.call = "yearly_totals" =>
       /\ IsYearlySum(cout.out.yearly_patients, cin, "Number of Active Patients")
       /\ IsYearlySum(cout.out.yearly_providers, cin, "Number of Providers")
  /\ cout.call = "charts" =>
       /\ IsYearlySum(cout.out.yearly_active, cin, "Number of Active Patients")
       /\ IsYearlySum(cout.out.yearly_eligible, cin, "Number of Eligible MCO Patients")

\* rows of 2025, 2024 and 2025 again, and a row of a plan that is left out
C18_Witness ==
  /\ cout.call = "yearly_totals"
  /\ Len(cin) = 3
  /\ StateRowsOf(cin, Num(2025)) = {1}
  /\ StateRowsOf(cin, Num(2024)) = {2}
  /\ cin[3]["MCO Name"] # "All"
  /\ cin[3]["Calendar Year"] = Num(2025)
  /\ cin[1]["Number of Active Patients"] = Num(10)
  /\ cout.out.yearly_patients =
       <<[year |-> Num(2024), value |-> Num(7)], [year |-> Num(2025), value |-> Num(10)]>>

\* two rows of one year are summed
YearlySumAddsRows ==
  /\ cout.call = "yearly_totals"
  /\ Cardinality(StateRowsOf(cin, Num(2025))) = 2
  /\ cout.out.yearly_patients = <<[year |-> Num(2025), value |-> Num(15)]>>

\* the sum of services per patient * active patients over the rows of df
\* numbered in I
RECURSIVE SumProductsOver(_, _)
SumProductsOver(df, I) ==
  IF I = {} THEN 0
  ELSE LET i == CHOOSE x \in I : TRUE
       IN df[i]["Number of Services per Active Patient"].n
            * df[i]["Number of Active Patients"].n + SumProductsOver(df, I \ {i})

\* the rows among I with a number of patients, and those of them with a number
\* of services per patient too
Counted(df, I) == {i \in I : ~isna(df[i]["Number of Active Patients"])}

Weighted(df, I) ==
  {i \in Counted(df, I) : ~isna(df[i]["Number of Services per Active Patient"])}

\* C19 as stated: the weighted average of services per patient of the county
\* rows of the state for 2025 is (sum of services * patients) / (sum of patients),
\* both sums over the same rows, also when a row has no services value
C19_WeightedAverageOverSameRows ==
  cout.call = "precalculated" =>
    LET rows == Weighted(cin, CountyStateRows2025(cin))
        average == cout.out.state_avg_services_2025
    IN Active(cin, rows) > 0 =>
         /\ average.kind = "num"
         /\ average.n * Active(cin, rows) = average.d * SumProductsOver(cin, rows)

\* what the code does: the numerator leaves out the rows without a services
\* value, the denominator counts their patients
WeightedAverageCountsAllPatients ==
  cout.call = "precalculated" =>
    LET rows == CountyStateRows2025(cin)
        average == cout.out.state_avg_services_2025
    IN IF Active(cin, rows) > 0
       THEN /\ average.kind = "num"
            /\ average.n * Active(cin, Counted(cin, rows))
                 = average.d * SumProductsOver(cin, Weighted(cin, rows))
       ELSE average = Num(0)

\* 10 patients with 2 services each and 5 patients without a services value:
\* 20 / 15 instead of 20 / 10
WeightedAverageExample ==
  /\ cout.call = "precalculated"
  /\ Len(cin) = 2
  /\ CountyStateRows2025(cin) = {1, 2}
  /\ Weighted(cin, {1, 2}) = {1}
  /\ cin[1]["Number of Active Patients"] = Num(10)
  /\ cin[1]["Number of Services per Active Patient"] = Num(2)
  /\ cin[2]["Number of Active Patients"] = Num(5)
  /\ cout.out.state_avg_services_2025 = [kind |-> "num", n |-> 4, d |-> 3]

\* the ratio cells of the rows of the state, in their order
RECURSIVE RatioCells(_)
RatioCells(df) ==
  IF df = <<>> THEN <<>>
  ELSE (IF df[1]["MCO Name"] = "All"
        THEN <<df[1]["Number of Active Patients per Provider"]>> ELSE <<>>)
         \o RatioCells(Tail(df))

\* what a ratio cell is to give: "12:1" gives 12 and "8:1" gives 8; "abc", a
\* cell with no digit before the colon and a missing cell give no value
ExpectedRatio(cell) ==
  IF cell = Str(<<"1", "2", ":", "1">>) THEN Num(12)
  ELSE IF cell = Str(<<"8", ":", "1">>) THEN Num(8)
  ELSE IF cell = Str(<<"3", ":", "1">>) THEN Num(3)
  ELSE nan

\* the sum and the number of the values of a list that are not missing
RECURSIVE SumValid(_)
SumValid(values) ==
  IF values = <<>> THEN 0
  ELSE (IF isna(values[1]) THEN 0 ELSE values[1].n) + SumValid(Tail(values))

NumberValid(values) == Cardinality({i \in 1..Len(values) : ~isna(values[i])})

\* C20: extract_ratio gives the integer before the first colon of a well-formed
\* cell and a missing value for any other cell, without raising; the average is
\* the mean of the values that are not missing, and is not calculated when there
\* is none
C20_RatioExtraction ==
  cout.call = "section7" =>
    LET cells == RatioCells(cin)
        extracted == cout.out.extracted
    IN /\ Len(extracted) = Len(cells)
       /\ \A i \in 1..Len(cells) : extracted[i] = ExpectedRatio(cells[i])
       /\ IF NumberValid(extracted) = 0 THEN cout.out.avg_ratio = NotComputed
          ELSE /\ cout.out.avg_ratio.kind = "num"
               /\ cout.out.avg_ratio.n * NumberValid(extracted)
                    = cout.out.avg_ratio.d * SumValid(extracted)

\* the cells "12:1", "abc" and "8:1": 12, missing and 8, of average 10
C20_Witness ==
  /\ cout.call = "section7"
  /\ RatioCells(cin) = <<Str(<<"1", "2", ":", "1">>), Str(<<"a", "b", "c">>),
                         Str(<<"8", ":", "1">>)>>
  /\ cout.out.extracted = <<Num(12), nan, Num(8)>>
  /\ cout.out.avg_ratio = Num(10)

-----------------------------------------------------------------------------
(* Properties of the geographic leadership *)

\* the counties of the ranking and the entities that have a row in it
RankingCounties(df) == {df[i]["County"] : i \in CountyRankingRows(df)}

RankingEntities(df) == {df[i]["MCO Name"] : i \in CountyRankingRows(df)}

\* the rows of a county in the ranking
CountyRows(df, county) == {i \in CountyRankingRows(df) : df[i]["County"] = county}

\* row i has the largest number of active patients of its county
HasMaximum(df, i) ==
  \A j \in CountyRows(df, df[i]["County"]) :
    ~Less(df[i]["Number of Active Patients"], df[j]["Number of Active Patients"])

\* the one entity a county credits: that of the first row with the maximum
Credited(df, county) ==
  LET i == CHOOSE x \in CountyRows(df, county) :
             /\ HasMaximum(df, x)
             /\ \A y \in CountyRows(df, county) : HasMaximum(df, y) => x <= y
  IN df[i]["MCO Name"]

RECURSIVE SumOfTallies(_, _)
SumOfTallies(df, names) ==
  IF names = {} THEN 0
  ELSE LET name == CHOOSE x \in names : TRUE
       IN counties_where_leader(df, name) + SumOfTallies(df, names \ {name})

\* C21: the leadership count of a reported Comprehensive MCO is the number of
\* distinct counties of 2025 (County # 'All') that credit it, a county crediting
\* the one entity whose row has the maximum of active patients among the rows
\* of Comprehensive MCOs of that county (of equals, the first); so no count
\* exceeds the number of counties, and the counts of all entities add up to it
C21_LeadershipTally ==
  (cout.call = "deep_dive" /\ cout.plan = Comprehensive) =>
    /\ \A k \in 1..Len(cout.out.reports) :
         LET report == cout.out.reports[k]
         IN report.counties_where_leader # NotComputed =>
              /\ report.counties_where_leader =
                   Num(Cardinality({county \in RankingCounties(cin) :
                                      Credited(cin, county) = report.name}))
              /\ report.total_counties = Num(Cardinality(RankingCounties(cin)))
              /\ report.counties_where_leader.n <= report.total_counties.n
    /\ SumOfTallies(cin, RankingEntities(cin)) = Cardinality(RankingCounties(cin))

\* a report on an entity that is the first of two equals in a county: the
\* county credits it, and it alone
C21_Witness ==
  /\ cout.call = "deep_dive" /\ cout.plan = Comprehensive
  /\ \E k \in 1..Len(cout.out.reports) :
       /\ cout.out.reports[k].counties_where_leader = Num(1)
       /\ cout.out.reports[k].total_counties = Num(1)
       /\ \E i, j \in CountyRankingRows(cin) :
            /\ i < j
            /\ cin[i]["MCO Name"] = cout.out.reports[k].name
            /\ cin[j]["MCO Name"] # cin[i]["MCO Name"]
            /\ cin[j]["County"] = cin[i]["County"]
            /\ cin[j]["Number of Active Patients"] = cin[i]["Number of Active Patients"]

\* a report on an entity in a table of two counties
LeadershipOfTwoCounties ==
  /\ cout.call = "deep_dive" /\ cout.plan = Comprehensive
  /\ \E k \in 1..Len(cout.out.reports) :
       cout.out.reports[k].total_counties = Num(2)

-----------------------------------------------------------------------------
(* The table the aggregations are given *)

\* the aggregations of analyze.py leave the table they are given as it was,
\* section 7 with its new column included
AggregationsLeaveInput == [][cin' = cin]_vars

\* section 7 has extracted a ratio into the new column
DerivedColumnExample ==
  /\ cout.call = "section7"
  /\ \E i \in 1..Len(cout.out.extracted) : ~isna(cout.out.extracted[i])
  /\ \A i \in 1..Len(cin) : "Patients_Per_Provider" \notin DOMAIN cin[i]

-----------------------------------------------------------------------------
(* Properties of the county ranking of section 3 *)

\* C28 as stated: the top 5 counties of section 3 list county rows only, no
\* returned entry has County = 'All'
C28_TopCountiesAreCounties ==
  cout.call = "top_lists" =>
    \A k \in 1..Len(cout.out.top_counties) : cout.out.top_counties[k]["County"] # "All"

\* what section 3 ranks: the rows of the state for 2025, the statewide row
\* (County = 'All') among them, which is listed whenever it is one of the 5
\* largest
TopCountiesRankStatewideRow ==
  cout.call = "top_lists" =>
    \A i \in StateRowsOf(cin, Num(2025)) :
      (cin[i]["County"] = "All" /\ Cardinality(StateRowsOf(cin, Num(2025))) <= top_n) =>
        \E k \in 1..Len(cout.out.top_counties) : cout.out.top_counties[k] = cin[i]

\* the statewide row of 15 patients listed first, before the county of 10
StatewideRowListedFirst ==
  /\ cout.call = "top_lists"
  /\ Len(cout.out.top_counties) = 2
  /\ cout.out.top_counties[1]["County"] = "All"
  /\ cout.out.top_counties[1]["Number of Active Patients"] = Num(15)
  /\ cout.out.top_counties[2]["County"] = "Kent"

-----------------------------------------------------------------------------
(* The state utilization of 2025 in its three consumers *)

\* C29 as stated: the utilization of calculate_metrics for 2025, that of section
\* 6 for the year 2025 and the state average of 2025 of the deep dives are
\* calculated over the same rows of the table and are equal
C29_StateUtilizationAgrees ==
  /\ (cout.call = "calculate_metrics" /\ cout.selected_year = 2025) =>
       /\ StateRowsOf(cin, Num(2025)) = CountyStateRows2025(cin)
       /\ cout.out.utilization = true_state_utilization_2025(cin)
  /\ (cout.call = "section6" /\ Num(2025) \in DOMAIN cout.out.year_utilization) =>
       /\ cout.out.year_utilization[Num(2025)] = true_state_utilization_2025(cin)
       /\ cout.out.year_utilization[Num(2025)] = calculate_metrics(cin, 2025).utilization
  /\ cout.call = "precalculated" =>
       cout.out.true_state_utilization_2025 = calculate_metrics(cin, 2025).utilization

\* what the consumers do: the dashboard and section 6 take all the rows of the
\* state for 2025 and agree with each other; the state average of the deep
\* dives leaves out the statewide row (County = 'All') and agrees with them on
\* the tables without such a row
StateUtilizationAgreesWithoutStatewideRow ==
  /\ (cout.call = "calculate_metrics" /\ cout.selected_year = 2025) =>
       /\ Num(2025) \in Years(all_mco_df(cin)) =>
            cout.out.utilization = year_utilization(cin)[Num(2025)]
       /\ StateRowsOf(cin, Num(2025)) = CountyStateRows2025(cin) =>
            cout.out.utilization = true_state_utilization_2025(cin)
  /\ (cout.call = "section6" /\ Num(2025) \in DOMAIN cout.out.year_utilization) =>
       /\ cout.out.year_utilization[Num(2025)] = calculate_metrics(cin, 2025).utilization
       /\ StateRowsOf(cin, Num(2025)) = CountyStateRows2025(cin) =>
            cout.out.year_utilization[Num(2025)] = true_state_utilization_2025(cin)

\* the statewide row (15 active, 0 eligible) and Kent (10 active, 20 eligible):
\* 125 % for the dashboard, 50 % for the state average of the deep dives
StateUtilizationDiffers ==
  /\ cout.call = "calculate_metrics" /\ cout.selected_year = 2025
  /\ Len(cin) = 2
  /\ cout.out.utilization = Num(125)
  /\ true_state_utilization_2025(cin) = Num(50)

====
